---- MODULE Spec2Model ----
(***************************************************************************)
(* State-mediation core of LLGL: the OpenGL state cache (GLStateManager),  *)
(* which mirrors the state of the stateful driver and forwards a native    *)
(* call only when the requested value differs from the mirror.             *)
(*                                                                         *)
(* Every method of the cache is an operator on a record `s` holding the    *)
(* members of the object, the state of the driver, and the native calls    *)
(* issued so far by the running method.  One action per method commits the *)
(* record the method returns.                                              *)
(***************************************************************************)
EXTENDS Integers, Sequences, FiniteSets, TLC

VARIABLES
    values,             \* renderState_.values      : GLState -> BOOLEAN
    valueStack,         \* renderState_.valueStack  : stack of (state, enabled)
    boundBuffers,       \* bufferState_.boundBuffers: GLBufferTarget -> GLuint
    boundBufferStack,   \* bufferState_.boundBufferStack : stack of (target, buffer)
    layers,             \* textureState_.layers    : layer -> GLTextureTarget -> GLuint
    activeTexture,      \* textureState_.activeTexture : index of the active layer
    activeTextureLayer, \* activeTextureLayer_     : the layer the pointer designates
    boundTextureStack,  \* textureState_.boundTextureStack : stack of (layer, target, texture)
    boundProgram,       \* shaderState_.boundProgram
    boundProgramStack,  \* shaderState_.boundProgramStack : stack of programs
    stencil,            \* commonState_.stencil    : 0 (front), 1 (back) -> GLStencil
    currentContextHeight, \* currentContextHeight_
    emulateClipControl, \* emulateClipControl_
    colorMask,          \* commonState_.colorMask  : the mirrored (r, g, b, a) write mask
    commonState,        \* commonState_ : depthFunc, polygonMode, cullFace, frontFace,
                        \* depthMask (its stencil and colorMask are the two above)
    glProcs,            \* the driver: the optional entry points whose pointer is not null
    glEnabled,          \* the driver: capability (GLenum) -> enabled
    glDrawBuf,          \* the driver: the color buffer selected by glDrawBuffer
    status,             \* "ok", or how the process ended after undefined behaviour
    capShadow,          \* history: (state, mirror value at push time) per open PushState
    bufShadow,          \* history: (target, mirror value at push time) per open PushBoundBuffer
    progShadow,         \* history: the mirrored program at push time per open PushShaderProgram
    run,                \* history: the latest run of consecutive calls of one method on one
                        \* slot: per call its argument, the mirror before it, its native calls
    native,             \* history: what the driver was last told: the buffer per target,
                        \* the active texture unit, the texture per (unit, target), the
                        \* global color mask; a slot has no entry while it holds 0
    active,             \* GLStateManager::active : the cache the static pointer designates
                        \* (0 = nullptr, otherwise the number of the cache)
    constructed,        \* history: the caches constructed so far, numbered 1, 2, ...
    samplers,           \* Direct3D 11: the number of D3D11Sampler objects constructed
    dxCall,             \* Direct3D: the latest call of DXThrowIfFailed and how it ended
    topology_,          \* DbgCommandBuffer::topology_
    vertexFormat_,      \* DbgCommandBuffer::vertexFormat_
    bindings_,          \* DbgCommandBuffer::bindings_ (0 = nullptr)
    states_,            \* DbgCommandBuffer::states_
    caps_,              \* DbgCommandBuffer::caps_
    dbgLog              \* history: per call on the DbgCommandBuffer, the call, the calls
                        \* made on `instance` and the reports posted to the debugger

\* the members of the cache the model follows (the first one constructed),
\* the driver and the history kept about them
cacheVars == <<values, valueStack, boundBuffers, boundBufferStack,
          layers, activeTexture, activeTextureLayer, boundTextureStack,
          boundProgram, boundProgramStack, stencil,
          currentContextHeight, emulateClipControl, colorMask, commonState,
          glProcs, glEnabled, glDrawBuf,
          status, capShadow, bufShadow, progShadow, run, native>>

glVars == <<cacheVars, active, constructed>>

dxVars == <<samplers, dxCall>>

dbgVars == <<topology_, vertexFormat_, bindings_, states_, caps_, dbgLog>>

vars == <<glVars, dxVars, dbgVars>>

(***************************************************************************)
(* Bounds of the model.                                                    *)
(***************************************************************************)
\* deepest nesting of PushState the client reaches
MaxValueStack == 2
\* largest buffer handle the client uses (0 = unbound)
MaxBuffer == 1
\* largest binding index passed to BindBufferBase
MaxIndex == 1
\* largest texture handle the client uses (0 = unbound)
MaxTexture == 1
\* largest texture layer the client activates
MaxLayer == 1
\* longest run of consecutive calls the call counter follows
MaxRun == 2
\* deepest total nesting (both stacks together) in the push/pop specification
MaxNest == 2
\* deepest nesting of PushBoundTexture the client reaches
MaxTextureStack == 2
\* number of calls followed from construction on when every call is counted
MaxTrace == 5
\* largest shader program handle the client uses (0 = none)
MaxProgram == 2
\* deepest nesting of PushShaderProgram the client reaches
MaxProgramStack == 2
\* largest stencil reference value, compare mask and write mask the client uses
MaxStencilValue == 1
\* largest context height (in pixels) a render context reports
MaxHeight == 2
\* longest list passed to SetViewports, SetDepthRanges and SetScissors
MaxList == 2
\* number of binary digits after the point of the GLfloat values the model follows
GLfloatFraction == 20
\* the height of a tall context, where GLfloat subtraction rounds
TallHeight == 64
\* longest list of blend states (one per color attachment) the client submits
MaxBlendStates == 3
\* most D3D11Sampler objects the client constructs
MaxSamplers == 2
\* largest vertex count passed to a draw call
MaxVertices == 10
\* largest instance count passed to an instanced draw call
MaxInstances == 1
\* most calls on the DbgCommandBuffer the whole-history log follows
MaxDbgTrace == 4
\* most GLStateManager objects the process constructs
MaxManagers == 2

(***************************************************************************)
(* Enumerations and lookup tables.                                         *)
(***************************************************************************)
\* the capabilities (GLState enumerators) the client uses
GLState == {"BLEND", "DITHER"}

\* the buffer targets (GLBufferTarget enumerators) the client uses
GLBufferTarget == {"ARRAY_BUFFER", "ELEMENT_ARRAY_BUFFER", "UNIFORM_BUFFER"}

Buffers == 0..MaxBuffer

\* the targets and handles of a client that binds few buffers
FewTargets == {"ARRAY_BUFFER", "UNIFORM_BUFFER"}

FewBuffers == {0, 1}

Indices == 0..MaxIndex

\* the texture targets (GLTextureTarget enumerators) the client uses
GLTextureTarget == {"TEXTURE_2D", "TEXTURE_3D"}

Textures == 0..MaxTexture

Layers == 0..MaxLayer

Programs == 0..MaxProgram

stateCapsMap(cap) ==
    CASE cap = "BLEND"  -> "GL_BLEND"
      [] cap = "DITHER" -> "GL_DITHER"

bufferTargetsMap(targetIdx) ==
    CASE targetIdx = "ARRAY_BUFFER"         -> "GL_ARRAY_BUFFER"
      [] targetIdx = "ELEMENT_ARRAY_BUFFER" -> "GL_ELEMENT_ARRAY_BUFFER"
      [] targetIdx = "UNIFORM_BUFFER"       -> "GL_UNIFORM_BUFFER"

textureTargetsMap(targetIdx) ==
    CASE targetIdx = "TEXTURE_2D" -> "GL_TEXTURE_2D"
      [] targetIdx = "TEXTURE_3D" -> "GL_TEXTURE_3D"

\* GL_TEXTURE0 + layer, as the offset from GL_TEXTURE0
textureLayersMap(layer) == layer

\* the number of texture layers of the cache (the entries of textureLayersMap)
numTextureLayers == 32

GLCaps == {stateCapsMap(c) : c \in GLState}

(***************************************************************************)
(* Helpers on stacks (std::stack: the top is the last element).            *)
(***************************************************************************)
Top(stk) == stk[Len(stk)]

Pop(stk) == SubSeq(stk, 1, Len(stk) - 1)

Push(stk, e) == Append(stk, e)

Min2(a, b) == IF a < b THEN a ELSE b

(***************************************************************************)
(* The driver.  A native call changes the driver's state and is logged.    *)
(***************************************************************************)
GLCall(fn, target, index, arg) == [fn |-> fn, target |-> target, index |-> index, arg |-> arg]

glEnable(s, cap) ==
    [s EXCEPT !.glEnabled[cap] = TRUE,
              !.calls = Append(@, GLCall("glEnable", cap, 0, 0))]

glDisable(s, cap) ==
    [s EXCEPT !.glEnabled[cap] = FALSE,
              !.calls = Append(@, GLCall("glDisable", cap, 0, 0))]

glIsEnabled(s, cap) == s.glEnabled[cap]

glBindBuffer(s, target, buffer) ==
    [s EXCEPT !.calls = Append(@, GLCall("glBindBuffer", target, 0, buffer))]

glBindBufferBase(s, target, index, buffer) ==
    [s EXCEPT !.calls = Append(@, GLCall("glBindBufferBase", target, index, buffer))]

glBindVertexArray(s, array) ==
    [s EXCEPT !.calls = Append(@, GLCall("glBindVertexArray", "-", 0, array))]

glActiveTexture(s, texture) ==
    [s EXCEPT !.calls = Append(@, GLCall("glActiveTexture", "GL_TEXTURE0", texture, 0))]

glBindTexture(s, target, texture) ==
    [s EXCEPT !.calls = Append(@, GLCall("glBindTexture", target, 0, texture))]

glViewport(s, x, y, width, height) ==
    [s EXCEPT !.calls = Append(@, GLCall("glViewport", "-", 0, <<x, y, width, height>>))]

\* the count argument is the length of the array v
glViewportArrayv(s, first, v) ==
    [s EXCEPT !.calls = Append(@, GLCall("glViewportArrayv", "-", first, v))]

glDepthRange(s, n, f) ==
    [s EXCEPT !.calls = Append(@, GLCall("glDepthRange", "-", 0, <<n, f>>))]

glDepthRangeArrayv(s, first, v) ==
    [s EXCEPT !.calls = Append(@, GLCall("glDepthRangeArrayv", "-", first, v))]

glScissor(s, x, y, width, height) ==
    [s EXCEPT !.calls = Append(@, GLCall("glScissor", "-", 0, <<x, y, width, height>>))]

glScissorArrayv(s, first, v) ==
    [s EXCEPT !.calls = Append(@, GLCall("glScissorArrayv", "-", first, v))]

glStencilOpSeparate(s, face, sfail, dpfail, dppass) ==
    [s EXCEPT !.calls = Append(@, GLCall("glStencilOpSeparate", face, 0, <<sfail, dpfail, dppass>>))]

glStencilFuncSeparate(s, face, func, ref, mask) ==
    [s EXCEPT !.calls = Append(@, GLCall("glStencilFuncSeparate", face, 0, <<func, ref, mask>>))]

glStencilMaskSeparate(s, face, mask) ==
    [s EXCEPT !.calls = Append(@, GLCall("glStencilMaskSeparate", face, 0, mask))]

glUseProgram(s, program) ==
    [s EXCEPT !.calls = Append(@, GLCall("glUseProgram", "-", 0, program))]

\* the GLenum GL_COLOR_ATTACHMENT0 + i
ColorAttachment(i) == [base |-> "GL_COLOR_ATTACHMENT0", offset |-> i]

glColorMask(s, r, g, b, a) ==
    [s EXCEPT !.calls = Append(@, GLCall("glColorMask", "-", 0, <<r, g, b, a>>))]

glColorMaski(s, buf, r, g, b, a) ==
    [s EXCEPT !.calls = Append(@, GLCall("glColorMaski", buf, 0, <<r, g, b, a>>))]

glBlendFuncSeparate(s, srcRGB, dstRGB, srcAlpha, dstAlpha) ==
    [s EXCEPT !.calls = Append(@, GLCall("glBlendFuncSeparate", "-", 0,
                                         <<srcRGB, dstRGB, srcAlpha, dstAlpha>>))]

glBlendFuncSeparatei(s, buf, srcRGB, dstRGB, srcAlpha, dstAlpha) ==
    [s EXCEPT !.calls = Append(@, GLCall("glBlendFuncSeparatei", buf, 0,
                                         <<srcRGB, dstRGB, srcAlpha, dstAlpha>>))]

\* selects the color buffer that is drawn into from now on
glDrawBuffer(s, buf) ==
    [s EXCEPT !.calls = Append(@, GLCall("glDrawBuffer", buf, 0, 0)),
              !.glDrawBuf = buf]

\* the handle a table of slots holds for a slot (0 = nothing bound)
Bound(slots, slot) == IF slot \in DOMAIN slots THEN slots[slot] ELSE 0

\* the table with handle put into slot
Bind(slots, slot, handle) ==
    [x \in (DOMAIN slots \cup {slot}) \ (IF handle = 0 THEN {slot} ELSE {}) |->
        IF x = slot THEN handle ELSE slots[x]]

\* the driver after one more native call: a bind replaces the buffer of its
\* target, or the texture of its target in the active unit
NativeCall(h, c) ==
    CASE c.fn \in {"glBindBuffer", "glBindBufferBase"} ->
             [h EXCEPT !.buffers = Bind(@, c.target, c.arg)]
      [] c.fn = "glActiveTexture" -> [h EXCEPT !.unit = c.index]
      [] c.fn = "glBindTexture" ->
             [h EXCEPT !.textures = Bind(@, <<h.unit, c.target>>, c.arg)]
      [] c.fn = "glColorMask" -> [h EXCEPT !.colorMask = c.arg]
      [] OTHER -> h

RECURSIVE LastNative(_, _)
LastNative(h, calls) ==
    IF calls = <<>> THEN h ELSE LastNative(NativeCall(h, Head(calls)), Tail(calls))

\* a driver that was told nothing yet: nothing is bound, texture unit 0 is
\* the active one, every color channel is written
NoNative ==
    [buffers |-> <<>>, unit |-> 0, textures |-> <<>>, colorMask |-> <<TRUE, TRUE, TRUE, TRUE>>]

(***************************************************************************)
(* Common.  The value the constructor of the cache `this` leaves in the    *)
(* static pointer GLStateManager::active, which held activeNow.            *)
(***************************************************************************)
\* a constructor that registers the cache only while none is registered
GLStateManagerIfNone(activeNow, this) == IF activeNow = 0 THEN this ELSE activeNow

GLStateManager(activeNow, this) == this

(***************************************************************************)
(* Boolean states.                                                         *)
(***************************************************************************)
\* Reset that fills the mirror with false, as the constructor does
ResetFill(s) == [s EXCEPT !.values = [i \in GLState |-> FALSE]]

Reset(s) ==
    [s EXCEPT !.values = [i \in GLState |-> glIsEnabled(s, stateCapsMap(i))]]

\* Set without the comparison against the mirror
SetUnchecked(s, state, value) ==
    LET t == [s EXCEPT !.values[state] = value]
    IN  IF value THEN glEnable(t, stateCapsMap(state))
                 ELSE glDisable(t, stateCapsMap(state))

\* Set that forgets to store the new value in the mirror
SetNoStore(s, state, value) ==
    IF s.values[state] # value
    THEN IF value THEN glEnable(s, stateCapsMap(state))
                  ELSE glDisable(s, stateCapsMap(state))
    ELSE s

Set(s, state, value) ==
    IF s.values[state] # value
    THEN LET t == [s EXCEPT !.values[state] = value]
         IN  IF value THEN glEnable(t, stateCapsMap(state))
                      ELSE glDisable(t, stateCapsMap(state))
    ELSE s

Enable(s, state) ==
    IF ~s.values[state]
    THEN glEnable([s EXCEPT !.values[state] = TRUE], stateCapsMap(state))
    ELSE s

Disable(s, state) ==
    IF s.values[state]
    THEN glDisable([s EXCEPT !.values[state] = FALSE], stateCapsMap(state))
    ELSE s

IsEnabled(s, state) == s.values[state]

\* PushState that saves what the driver reports instead of the mirror
PushStateFromDriver(s, state) ==
    [s EXCEPT !.valueStack =
                  Push(@, [state |-> state, enabled |-> glIsEnabled(s, stateCapsMap(state))])]

PushState(s, state) ==
    [s EXCEPT !.valueStack = Push(@, [state |-> state, enabled |-> s.values[state]])]

\* PopState that talks to the driver itself instead of going through Set
PopStateDirect(s) ==
    IF s.valueStack = <<>>
    THEN [s EXCEPT !.ub = TRUE]
    ELSE LET state == Top(s.valueStack)
         IN  [SetUnchecked(s, state.state, state.enabled) EXCEPT !.valueStack = Pop(@)]

\* top() and pop() of an empty std::stack are undefined behaviour
PopState(s) ==
    IF s.valueStack = <<>>
    THEN [s EXCEPT !.ub = TRUE]
    ELSE LET state == Top(s.valueStack)
         IN  [Set(s, state.state, state.enabled) EXCEPT !.valueStack = Pop(@)]

\* PopStates with the loop condition --count > 0
RECURSIVE PopStatesPreDecrement(_, _)
PopStatesPreDecrement(s, count) ==
    IF count - 1 > 0 /\ ~s.ub
    THEN PopStatesPreDecrement(PopState(s), count - 1)
    ELSE s

RECURSIVE PopStates(_, _)
PopStates(s, count) ==
    IF count > 0 /\ ~s.ub
    THEN PopStates(PopState(s), count - 1)
    ELSE s

(***************************************************************************)
(* Common states: viewports, depth ranges, scissors.  A GLfloat is held as  *)
(* a multiple of 2^-GLfloatFraction (GLfloatOne is 1.0) with a significand *)
(* of 24 binary digits: a result that needs more digits is rounded to the  *)
(* nearest such value, ties to the even significand.  A GLdouble, which    *)
(* the methods only pass on, is held as its number of halves, a GLint /    *)
(* GLsizei as itself.  The methods adjust the elements of the caller's     *)
(* vector in place: the adjusted elements are what the native call         *)
(* receives and what the caller's vector holds afterwards (field vector).  *)
(***************************************************************************)
GLfloatOne == 2 ^ GLfloatFraction

\* a significand of 24 binary digits holds the integers below this one
GLfloatPrecision == 2 ^ 24

\* the spacing of the GLfloat values around the magnitude a
RECURSIVE Ulp(_)
Ulp(a) == IF a < GLfloatPrecision THEN 1 ELSE 2 * Ulp(a \div 2)

\* the GLfloat nearest to v, ties to even
GLfloatRound(v) ==
    LET a == IF v < 0 THEN -v ELSE v
        q == Ulp(a)
        n == a \div q
        r == a - n * q
        m == IF 2 * r < q \/ (2 * r = q /\ n % 2 = 0) THEN n ELSE n + 1
    IN  IF v < 0 THEN -(m * q) ELSE m * q

\* static_cast<GLfloat>(i)
GLfloatCast(i) == GLfloatRound(GLfloatOne * i)

\* static_cast<GLint>(f) and static_cast<GLsizei>(f): truncation toward zero
GLintCast(f) == IF f >= 0 THEN f \div GLfloatOne ELSE -((-f) \div GLfloatOne)

MakeCurrentInfo(s, contextHeight) == [s EXCEPT !.currentContextHeight = contextHeight]

\* AdjustViewport that takes the context height for the lower edge (no " - height")
AdjustViewportNoHeight(s, viewport) ==
    [viewport EXCEPT !.y = GLfloatRound(GLfloatCast(s.currentContextHeight) - viewport.y)]

\* the two GLfloat subtractions, left to right, each rounded
AdjustViewport(s, viewport) ==
    [viewport EXCEPT !.y =
        GLfloatRound(GLfloatRound(GLfloatCast(s.currentContextHeight) - viewport.height)
                     - viewport.y)]

SetViewports(s, viewports) ==
    IF Len(viewports) = 1
    THEN LET vp == IF s.emulateClipControl THEN AdjustViewport(s, viewports[1])
                   ELSE viewports[1]
         IN  [glViewport(s, GLintCast(vp.x), GLintCast(vp.y),
                         GLintCast(vp.width), GLintCast(vp.height))
                 EXCEPT !.vector = <<vp>>]
    ELSE IF Len(viewports) > 1 /\ "glViewportArrayv" \in s.glProcs
    THEN LET adjusted == [i \in 1..Len(viewports) |->
                             IF s.emulateClipControl THEN AdjustViewport(s, viewports[i])
                             ELSE viewports[i]]
         IN  [glViewportArrayv(s, 0, adjusted) EXCEPT !.vector = adjusted]
    ELSE [s EXCEPT !.vector = viewports]

SetDepthRanges(s, depthRanges) ==
    IF Len(depthRanges) = 1
    THEN glDepthRange(s, depthRanges[1].minDepth, depthRanges[1].maxDepth)
    ELSE IF Len(depthRanges) > 1 /\ "glDepthRangeArrayv" \in s.glProcs
    THEN glDepthRangeArrayv(s, 0, depthRanges)
    ELSE s

AdjustScissor(s, scissor) ==
    [scissor EXCEPT !.y = s.currentContextHeight - scissor.height - scissor.y]

\* SetScissors that calls the array entry point without testing its pointer
SetScissorsNoProcCheck(s, scissors) ==
    IF Len(scissors) = 1
    THEN LET sc == IF s.emulateClipControl THEN AdjustScissor(s, scissors[1])
                   ELSE scissors[1]
         IN  [glScissor(s, sc.x, sc.y, sc.width, sc.height) EXCEPT !.vector = <<sc>>]
    ELSE IF Len(scissors) > 1
    THEN LET adjusted == [i \in 1..Len(scissors) |->
                             IF s.emulateClipControl THEN AdjustScissor(s, scissors[i])
                             ELSE scissors[i]]
         IN  [glScissorArrayv(s, 0, adjusted) EXCEPT !.vector = adjusted]
    ELSE [s EXCEPT !.vector = scissors]

\* SetScissors that adjusts a copy of each element and leaves the caller's vector alone
SetScissorsOnCopy(s, scissors) ==
    IF Len(scissors) = 1
    THEN LET sc == IF s.emulateClipControl THEN AdjustScissor(s, scissors[1])
                   ELSE scissors[1]
         IN  [glScissor(s, sc.x, sc.y, sc.width, sc.height) EXCEPT !.vector = scissors]
    ELSE IF Len(scissors) > 1 /\ "glScissorArrayv" \in s.glProcs
    THEN LET adjusted == [i \in 1..Len(scissors) |->
                             IF s.emulateClipControl THEN AdjustScissor(s, scissors[i])
                             ELSE scissors[i]]
         IN  [glScissorArrayv(s, 0, adjusted) EXCEPT !.vector = scissors]
    ELSE [s EXCEPT !.vector = scissors]

SetScissors(s, scissors) ==
    IF Len(scissors) = 1
    THEN LET sc == IF s.emulateClipControl THEN AdjustScissor(s, scissors[1])
                   ELSE scissors[1]
         IN  [glScissor(s, sc.x, sc.y, sc.width, sc.height) EXCEPT !.vector = <<sc>>]
    ELSE IF Len(scissors) > 1 /\ "glScissorArrayv" \in s.glProcs
    THEN LET adjusted == [i \in 1..Len(scissors) |->
                             IF s.emulateClipControl THEN AdjustScissor(s, scissors[i])
                             ELSE scissors[i]]
         IN  [glScissorArrayv(s, 0, adjusted) EXCEPT !.vector = adjusted]
    ELSE [s EXCEPT !.vector = scissors]

(***************************************************************************)
(* Common states: blending.  The private SetBlendState(drawBuffer, state,  *)
(* blendEnabled) applies one state to one draw buffer; the loop of         *)
(* SetBlendStates over the list, with its running drawBuffer++, is         *)
(* SetBlendStateLoop.                                                      *)
(***************************************************************************)
\* SetBlendState whose fallback does not select the draw buffer
SetBlendStateNoSelect(s, drawBuffer, state, blendEnabled) ==
    IF "glBlendFuncSeparatei" \in s.glProcs /\ "glColorMaski" \in s.glProcs
    THEN LET s1 == glColorMaski(s, drawBuffer, state.colorMask.r, state.colorMask.g,
                                state.colorMask.b, state.colorMask.a)
         IN  IF blendEnabled
             THEN glBlendFuncSeparatei(s1, drawBuffer, state.srcColor, state.destColor,
                                       state.srcAlpha, state.destAlpha)
             ELSE s1
    ELSE LET s2 == glColorMask(s, state.colorMask.r, state.colorMask.g,
                               state.colorMask.b, state.colorMask.a)
         IN  IF blendEnabled
             THEN glBlendFuncSeparate(s2, state.srcColor, state.destColor,
                                      state.srcAlpha, state.destAlpha)
             ELSE s2

SetBlendState(s, drawBuffer, state, blendEnabled) ==
    IF "glBlendFuncSeparatei" \in s.glProcs /\ "glColorMaski" \in s.glProcs
    THEN LET s1 == glColorMaski(s, drawBuffer, state.colorMask.r, state.colorMask.g,
                                state.colorMask.b, state.colorMask.a)
         IN  IF blendEnabled
             THEN glBlendFuncSeparatei(s1, drawBuffer, state.srcColor, state.destColor,
                                       state.srcAlpha, state.destAlpha)
             ELSE s1
    ELSE LET s1 == glDrawBuffer(s, drawBuffer)
             s2 == glColorMask(s1, state.colorMask.r, state.colorMask.g,
                               state.colorMask.b, state.colorMask.a)
         IN  IF blendEnabled
             THEN glBlendFuncSeparate(s2, state.srcColor, state.destColor,
                                      state.srcAlpha, state.destAlpha)
             ELSE s2

RECURSIVE SetBlendStateLoop(_, _, _, _)
\* for (const auto& state : blendStates) SetBlendState(drawBuffer++, state, blendEnabled)
SetBlendStateLoop(s, blendStates, drawBuffer, blendEnabled) ==
    IF blendStates = <<>> THEN s
    ELSE SetBlendStateLoop(SetBlendState(s, drawBuffer, Head(blendStates), blendEnabled),
                           Tail(blendStates),
                           [drawBuffer EXCEPT !.offset = @ + 1], blendEnabled)

\* SetBlendStates sending the color mask of a single state without comparing it
SetBlendStatesUnchecked(s, blendStates, blendEnabled) ==
    IF Len(blendStates) = 1
    THEN LET state == blendStates[1]
             s1 == glColorMask([s EXCEPT !.colorMask = state.colorMask],
                               state.colorMask.r, state.colorMask.g,
                               state.colorMask.b, state.colorMask.a)
         IN  IF blendEnabled
             THEN glBlendFuncSeparate(s1, state.srcColor, state.destColor,
                                      state.srcAlpha, state.destAlpha)
             ELSE s1
    ELSE IF Len(blendStates) > 1
    THEN SetBlendStateLoop(s, blendStates, ColorAttachment(0), blendEnabled)
    ELSE s

SetBlendStates(s, blendStates, blendEnabled) ==
    IF Len(blendStates) = 1
    THEN LET state == blendStates[1]
             s1 == IF s.colorMask # state.colorMask
                   THEN glColorMask([s EXCEPT !.colorMask = state.colorMask],
                                    state.colorMask.r, state.colorMask.g,
                                    state.colorMask.b, state.colorMask.a)
                   ELSE s
         IN  IF blendEnabled
             THEN glBlendFuncSeparate(s1, state.srcColor, state.destColor,
                                      state.srcAlpha, state.destAlpha)
             ELSE s1
    ELSE IF Len(blendStates) > 1
    THEN SetBlendStateLoop(s, blendStates, ColorAttachment(0), blendEnabled)
    ELSE s

SetClipControl(s, origin, depth) ==
    [s EXCEPT !.emulateClipControl = (origin = "GL_UPPER_LEFT")]

(***************************************************************************)
(* Common states: stencil.  The private overload SetStencilState(face, to, *)
(* from) is SetStencilStateTo; `to` is the index of the mirror it is given *)
(* by reference (0: commonState_.stencil[0], 1: commonState_.stencil[1]).  *)
(***************************************************************************)
\* the private overload re-sending all three sub-fields as soon as one of them differs
SetStencilStateToWhole(s, face, to, from) ==
    IF s.stencil[to] # from
    THEN LET s1 == [s EXCEPT !.stencil[to] = from]
             s2 == glStencilOpSeparate(s1, face, from.sfail, from.dpfail, from.dppass)
             s3 == glStencilFuncSeparate(s2, face, from.func, from.ref, from.mask)
         IN  glStencilMaskSeparate(s3, face, from.writeMask)
    ELSE s

SetStencilStateTo(s, face, to, from) ==
    LET s1 == IF \/ s.stencil[to].sfail # from.sfail
                 \/ s.stencil[to].dpfail # from.dpfail
                 \/ s.stencil[to].dppass # from.dppass
              THEN glStencilOpSeparate(
                       [s EXCEPT !.stencil[to].sfail = from.sfail,
                                 !.stencil[to].dpfail = from.dpfail,
                                 !.stencil[to].dppass = from.dppass],
                       face, from.sfail, from.dpfail, from.dppass)
              ELSE s
        s2 == IF \/ s1.stencil[to].func # from.func
                 \/ s1.stencil[to].ref # from.ref
                 \/ s1.stencil[to].mask # from.mask
              THEN glStencilFuncSeparate(
                       [s1 EXCEPT !.stencil[to].func = from.func,
                                  !.stencil[to].ref = from.ref,
                                  !.stencil[to].mask = from.mask],
                       face, from.func, from.ref, from.mask)
              ELSE s1
    IN  IF s2.stencil[to].writeMask # from.writeMask
        THEN glStencilMaskSeparate([s2 EXCEPT !.stencil[to].writeMask = from.writeMask],
                                   face, from.writeMask)
        ELSE s2

\* SetStencilState whose FRONT_AND_BACK case applies the state to the front face only
SetStencilStateFrontOnly(s, face, state) ==
    CASE face = "GL_FRONT" -> SetStencilStateTo(s, "GL_FRONT", 0, state)
      [] face = "GL_BACK"  -> SetStencilStateTo(s, "GL_BACK", 1, state)
      [] face = "GL_FRONT_AND_BACK" -> SetStencilStateTo(s, "GL_FRONT", 0, state)
      [] OTHER -> s

SetStencilState(s, face, state) ==
    CASE face = "GL_FRONT" -> SetStencilStateTo(s, "GL_FRONT", 0, state)
      [] face = "GL_BACK"  -> SetStencilStateTo(s, "GL_BACK", 1, state)
      [] face = "GL_FRONT_AND_BACK" ->
             SetStencilStateTo(SetStencilStateTo(s, "GL_FRONT", 0, state), "GL_BACK", 1, state)
      [] OTHER -> s

(***************************************************************************)
(* Buffer binding.                                                         *)
(***************************************************************************)
\* BindBuffer that forgets to store the handle in the mirror
BindBufferNoStore(s, target, buffer) ==
    IF s.boundBuffers[target] # buffer
    THEN glBindBuffer(s, bufferTargetsMap(target), buffer)
    ELSE s

BindBuffer(s, target, buffer) ==
    IF s.boundBuffers[target] # buffer
    THEN glBindBuffer([s EXCEPT !.boundBuffers[target] = buffer],
                      bufferTargetsMap(target), buffer)
    ELSE s

\* BindBufferBase that binds without storing the handle in the mirror
BindBufferBaseNoStore(s, target, index, buffer) ==
    glBindBufferBase(s, bufferTargetsMap(target), index, buffer)

BindBufferBase(s, target, index, buffer) ==
    glBindBufferBase([s EXCEPT !.boundBuffers[target] = buffer],
                     bufferTargetsMap(target), index, buffer)

\* BindVertexArray that leaves the two mirrored slots as they are
BindVertexArrayNoZero(s, buffer) == glBindVertexArray(s, buffer)

BindVertexArray(s, buffer) ==
    [glBindVertexArray(s, buffer)
        EXCEPT !.boundBuffers["ARRAY_BUFFER"] = 0,
               !.boundBuffers["ELEMENT_ARRAY_BUFFER"] = 0]

\* ForcedBindBuffer that skips the bind when the mirror holds the handle
ForcedBindBufferChecked(s, target, buffer) == BindBuffer(s, target, buffer)

ForcedBindBuffer(s, target, buffer) ==
    glBindBuffer([s EXCEPT !.boundBuffers[target] = buffer],
                 bufferTargetsMap(target), buffer)

PushBoundBuffer(s, target) ==
    [s EXCEPT !.boundBufferStack =
                  Push(@, [target |-> target, buffer |-> s.boundBuffers[target]])]

\* PopBoundBuffer that restores with a forced bind
PopBoundBufferForced(s) ==
    IF s.boundBufferStack = <<>>
    THEN [s EXCEPT !.ub = TRUE]
    ELSE LET state == Top(s.boundBufferStack)
         IN  [ForcedBindBuffer(s, state.target, state.buffer)
                 EXCEPT !.boundBufferStack = Pop(@)]

PopBoundBuffer(s) ==
    IF s.boundBufferStack = <<>>
    THEN [s EXCEPT !.ub = TRUE]
    ELSE LET state == Top(s.boundBufferStack)
         IN  [BindBuffer(s, state.target, state.buffer) EXCEPT !.boundBufferStack = Pop(@)]

(***************************************************************************)
(* Texture binding.                                                        *)
(***************************************************************************)
\* ActiveTexture without the comparison against the active layer
\* ActiveTexture that stores the index and leaves the pointer to the table
ActiveTextureKeepTable(s, layer) ==
    IF s.activeTexture # layer
    THEN glActiveTexture([s EXCEPT !.activeTexture = layer], textureLayersMap(layer))
    ELSE s

ActiveTextureUnchecked(s, layer) ==
    glActiveTexture([s EXCEPT !.activeTexture = layer, !.activeTextureLayer = layer],
                    textureLayersMap(layer))

ActiveTexture(s, layer) ==
    IF s.activeTexture # layer
    THEN glActiveTexture([s EXCEPT !.activeTexture = layer, !.activeTextureLayer = layer],
                         textureLayersMap(layer))
    ELSE s

\* BindTexture that forgets to store the handle in the mirror
BindTextureNoStore(s, target, texture) ==
    IF s.layers[s.activeTextureLayer][target] # texture
    THEN glBindTexture(s, textureTargetsMap(target), texture)
    ELSE s

\* BindTexture that addresses the table of layer 0 whichever layer is active
BindTextureFirstLayer(s, target, texture) ==
    IF s.layers[0][target] # texture
    THEN glBindTexture([s EXCEPT !.layers[0][target] = texture],
                       textureTargetsMap(target), texture)
    ELSE s

BindTexture(s, target, texture) ==
    IF s.layers[s.activeTextureLayer][target] # texture
    THEN glBindTexture([s EXCEPT !.layers[s.activeTextureLayer][target] = texture],
                       textureTargetsMap(target), texture)
    ELSE s

ForcedBindTexture(s, target, texture) ==
    glBindTexture([s EXCEPT !.layers[s.activeTextureLayer][target] = texture],
                  textureTargetsMap(target), texture)

\* what std::invalid_argument carries out of GetTextureTarget
InvalidArgument == "std::invalid_argument: failed to convert texture type to OpenGL texture target"

\* GetTextureTarget whose default case answers TEXTURE_2D
GetTextureTargetDefault2D(type) ==
    CASE type = "Texture1D" -> [target |-> "TEXTURE_1D", thrown |-> ""]
      [] type = "Texture2D" -> [target |-> "TEXTURE_2D", thrown |-> ""]
      [] type = "Texture3D" -> [target |-> "TEXTURE_3D", thrown |-> ""]
      [] type = "TextureCube" -> [target |-> "TEXTURE_CUBE_MAP", thrown |-> ""]
      [] type = "Texture1DArray" -> [target |-> "TEXTURE_1D_ARRAY", thrown |-> ""]
      [] type = "Texture2DArray" -> [target |-> "TEXTURE_2D_ARRAY", thrown |-> ""]
      [] type = "TextureCubeArray" -> [target |-> "TEXTURE_CUBE_MAP_ARRAY", thrown |-> ""]
      [] OTHER -> [target |-> "TEXTURE_2D", thrown |-> ""]

\* the target the function returns, or the exception it throws
GetTextureTarget(type) ==
    CASE type = "Texture1D" -> [target |-> "TEXTURE_1D", thrown |-> ""]
      [] type = "Texture2D" -> [target |-> "TEXTURE_2D", thrown |-> ""]
      [] type = "Texture3D" -> [target |-> "TEXTURE_3D", thrown |-> ""]
      [] type = "TextureCube" -> [target |-> "TEXTURE_CUBE_MAP", thrown |-> ""]
      [] type = "Texture1DArray" -> [target |-> "TEXTURE_1D_ARRAY", thrown |-> ""]
      [] type = "Texture2DArray" -> [target |-> "TEXTURE_2D_ARRAY", thrown |-> ""]
      [] type = "TextureCubeArray" -> [target |-> "TEXTURE_CUBE_MAP_ARRAY", thrown |-> ""]
      [] OTHER -> [target |-> "", thrown |-> InvalidArgument]

\* BindTexture(const GLTexture&): the arguments are evaluated before the call
BindTextureGLTexture(s, texture) ==
    LET target == GetTextureTarget(texture.type)
    IN  IF target.thrown # ""
        THEN [s EXCEPT !.thrown = target.thrown]
        ELSE BindTexture(s, target.target, texture.id)

\* ForcedBindTexture(const GLTexture&)
ForcedBindTextureGLTexture(s, texture) ==
    LET target == GetTextureTarget(texture.type)
    IN  IF target.thrown # ""
        THEN [s EXCEPT !.thrown = target.thrown]
        ELSE ForcedBindTexture(s, target.target, texture.id)

PushBoundTexture(s, layer, target) ==
    [s EXCEPT !.boundTextureStack =
                  Push(@, [layer |-> layer, target |-> target,
                           texture |-> s.layers[layer][target]])]

\* PopBoundTexture that restores the handle without activating the saved layer
PopBoundTextureKeepLayer(s) ==
    IF s.boundTextureStack = <<>>
    THEN [s EXCEPT !.ub = TRUE]
    ELSE LET state == Top(s.boundTextureStack)
         IN  [BindTexture(s, state.target, state.texture) EXCEPT !.boundTextureStack = Pop(@)]

PopBoundTexture(s) ==
    IF s.boundTextureStack = <<>>
    THEN [s EXCEPT !.ub = TRUE]
    ELSE LET state == Top(s.boundTextureStack)
         IN  [BindTexture(ActiveTexture(s, state.layer), state.target, state.texture)
                 EXCEPT !.boundTextureStack = Pop(@)]

(***************************************************************************)
(* Shader binding.                                                         *)
(***************************************************************************)
\* BindShaderProgram without the comparison against the mirror
BindShaderProgramUnchecked(s, program) ==
    glUseProgram([s EXCEPT !.boundProgram = program], program)

BindShaderProgram(s, program) ==
    IF s.boundProgram # program
    THEN glUseProgram([s EXCEPT !.boundProgram = program], program)
    ELSE s

PushShaderProgram(s) ==
    [s EXCEPT !.boundProgramStack = Push(@, s.boundProgram)]

PopShaderProgram(s) ==
    IF s.boundProgramStack = <<>>
    THEN [s EXCEPT !.ub = TRUE]
    ELSE [BindShaderProgram(s, Top(s.boundProgramStack)) EXCEPT !.boundProgramStack = Pop(@)]

(***************************************************************************)
(* Direct3D: decoding and raising the status code (HRESULT, a signed       *)
(* 32-bit integer) a native call returned.                                 *)
(***************************************************************************)
\* the codes of the switch that every build has, with the name each case returns
DXErrorTable ==
    <<[name |-> "S_OK", code |-> 0],
     [name |-> "S_FALSE", code |-> 1],
     [name |-> "E_ABORT", code |-> -2147467260],
     [name |-> "E_ACCESSDENIED", code |-> -2147024891],
     [name |-> "E_FAIL", code |-> -2147467259],
     [name |-> "E_HANDLE", code |-> -2147024890],
     [name |-> "E_INVALIDARG", code |-> -2147024809],
     [name |-> "E_NOINTERFACE", code |-> -2147467262],
     [name |-> "E_NOTIMPL", code |-> -2147467263],
     [name |-> "E_OUTOFMEMORY", code |-> -2147024882],
     [name |-> "E_POINTER", code |-> -2147467261],
     [name |-> "E_UNEXPECTED", code |-> -2147418113],
     [name |-> "DXGI_ERROR_DEVICE_HUNG", code |-> -2005270522],
     [name |-> "DXGI_ERROR_DEVICE_REMOVED", code |-> -2005270523],
     [name |-> "DXGI_ERROR_DEVICE_RESET", code |-> -2005270521],
     [name |-> "DXGI_ERROR_DRIVER_INTERNAL_ERROR", code |-> -2005270496],
     [name |-> "DXGI_ERROR_FRAME_STATISTICS_DISJOINT", code |-> -2005270517],
     [name |-> "DXGI_ERROR_GRAPHICS_VIDPN_SOURCE_IN_USE", code |-> -2005270516],
     [name |-> "DXGI_ERROR_INVALID_CALL", code |-> -2005270527],
     [name |-> "DXGI_ERROR_MORE_DATA", code |-> -2005270525],
     [name |-> "DXGI_ERROR_NONEXCLUSIVE", code |-> -2005270495],
     [name |-> "DXGI_ERROR_NOT_CURRENTLY_AVAILABLE", code |-> -2005270494],
     [name |-> "DXGI_ERROR_NOT_FOUND", code |-> -2005270526],
     [name |-> "DXGI_ERROR_REMOTE_CLIENT_DISCONNECTED", code |-> -2005270493],
     [name |-> "DXGI_ERROR_REMOTE_OUTOFMEMORY", code |-> -2005270492],
     [name |-> "DXGI_ERROR_WAS_STILL_DRAWING", code |-> -2005270518],
     [name |-> "DXGI_ERROR_UNSUPPORTED", code |-> -2005270524],
     [name |-> "DXGI_ERROR_ACCESS_LOST", code |-> -2005270490],
     [name |-> "DXGI_ERROR_WAIT_TIMEOUT", code |-> -2005270489],
     [name |-> "DXGI_ERROR_SESSION_DISCONNECTED", code |-> -2005270488],
     [name |-> "DXGI_ERROR_RESTRICT_TO_OUTPUT_STALE", code |-> -2005270487],
     [name |-> "DXGI_ERROR_CANNOT_PROTECT_CONTENT", code |-> -2005270486],
     [name |-> "DXGI_ERROR_ACCESS_DENIED", code |-> -2005270485],
     [name |-> "DXGI_ERROR_NAME_ALREADY_EXISTS", code |-> -2005270484],
     [name |-> "DXGI_ERROR_SDK_COMPONENT_MISSING", code |-> -2005270483],
     [name |-> "D3D10_ERROR_FILE_NOT_FOUND", code |-> -2005336062],
     [name |-> "D3D10_ERROR_TOO_MANY_UNIQUE_STATE_OBJECTS", code |-> -2005336063],
     [name |-> "D3D11_ERROR_FILE_NOT_FOUND", code |-> -2005139454],
     [name |-> "D3D11_ERROR_TOO_MANY_UNIQUE_STATE_OBJECTS", code |-> -2005139455],
     [name |-> "D3D11_ERROR_TOO_MANY_UNIQUE_VIEW_OBJECTS", code |-> -2005139453],
     [name |-> "D3D11_ERROR_DEFERRED_CONTEXT_MAP_WITHOUT_INITIAL_DISCARD", code |-> -2005139452]>>

\* the cases compiled in only when LLGL_DX_ENABLE_D3D12 is defined
D3D12ErrorTable ==
    <<[name |-> "D3D12_ERROR_ADAPTER_NOT_FOUND", code |-> -2005008383],
      [name |-> "D3D12_ERROR_DRIVER_VERSION_MISMATCH", code |-> -2005008382]>>

HexDigit(d) ==
    <<"0", "1", "2", "3", "4", "5", "6", "7", "8", "9", "a", "b", "c", "d", "e", "f">>[d + 1]

RECURSIVE HexOf(_)
\* the hexadecimal digits of n >= 0, without leading zeros
HexOf(n) == IF n < 16 THEN HexDigit(n) ELSE HexOf(n \div 16) \o HexDigit(n % 16)

RECURSIVE HexFixed(_, _)
\* the lowest `width` hexadecimal digits of n >= 0
HexFixed(n, width) ==
    IF width = 0 THEN "" ELSE HexFixed(n \div 16, width - 1) \o HexDigit(n % 16)

\* a stream in std::hex mode prints a signed 32-bit value as the unsigned value
\* with the same bits: value + 2^32 when value is negative
ToHex(value) ==
    IF value >= 0 THEN HexOf(value)
    ELSE LET low == (value + 2147483647) + 1
         IN  HexDigit(8 + (low \div 268435456)) \o HexFixed(low % 268435456, 7)

\* SUCCEEDED / FAILED test the severity bit, the sign of the HRESULT
FAILED(hr) == hr < 0

\* d3d12: whether the build defines LLGL_DX_ENABLE_D3D12
DXErrorToStr(errorCode, d3d12) ==
    LET cases == IF d3d12 THEN DXErrorTable \o D3D12ErrorTable ELSE DXErrorTable
        hit == {i \in 1..Len(cases) : cases[i].code = errorCode}
    IN  IF hit # {} THEN cases[CHOOSE i \in hit : TRUE].name
        ELSE ToHex(errorCode)

\* DXThrowIfFailed that takes every code other than S_OK for a failure
DXThrowIfFailedNonZero(errorCode, info, d3d12) ==
    IF errorCode # 0
    THEN [thrown |-> TRUE,
          what |-> info \o " (error code = " \o DXErrorToStr(errorCode, d3d12) \o ")"]
    ELSE [thrown |-> FALSE, what |-> ""]

\* thrown: whether std::runtime_error leaves the function, what: its message
DXThrowIfFailed(errorCode, info, d3d12) ==
    IF FAILED(errorCode)
    THEN [thrown |-> TRUE,
          what |-> info \o " (error code = " \o DXErrorToStr(errorCode, d3d12) \o ")"]
    ELSE [thrown |-> FALSE, what |-> ""]

(***************************************************************************)
(* Debug layer: DbgCommandBuffer, the decorator that validates every call  *)
(* of the command-buffer contract, reports violations to the debugger and  *)
(* forwards the call to the wrapped `instance`.  Every method is an        *)
(* operator on a record `cb` holding the members of the decorator, the     *)
(* calls made on `instance` and the reports posted by the running method.  *)
(***************************************************************************)
\* the buffers of the client: their creation-time type and vertex format
BufferDesc(buffer) ==
    CASE buffer = 1 -> [type |-> "Vertex", vertexFormat |-> "texCoord2 position2"]
      [] buffer = 2 -> [type |-> "Vertex", vertexFormat |-> "position3"]
      [] buffer = 3 -> [type |-> "Index", vertexFormat |-> ""]

\* the graphics pipelines of the client: topology, the vertex format and the
\* shader stages of the shader program
GraphicsPipelineDesc(graphicsPipeline) ==
    CASE graphicsPipeline = 1 ->
             [primitiveTopology |-> "TriangleList", vertexFormat |-> "texCoord2 position2",
              stages |-> {"VertexStage", "FragmentStage"}]
      [] graphicsPipeline = 2 ->
             [primitiveTopology |-> "TriangleStrip", vertexFormat |-> "texCoord2 position2",
              stages |-> {"VertexStage", "FragmentStage"}]
      [] graphicsPipeline = 3 ->
             [primitiveTopology |-> "LineList", vertexFormat |-> "position3",
              stages |-> {"VertexStage", "GeometryStage", "FragmentStage"}]

\* ShaderStageFlags: a bitmask is the set of its single stages
ShaderStages ==
    {"VertexStage", "TessControlStage", "TessEvaluationStage", "GeometryStage",
     "FragmentStage", "ComputeStage"}

\* ShaderStageFlags::AllStages, the default argument of the binding calls
AllStages == ShaderStages

\* debugger_->PostError / PostWarning: a report of one category about one subject
PostError(cb, about, value) ==
    [cb EXCEPT !.reports = Append(@, [type |-> "error", about |-> about, value |-> value])]

PostWarning(cb, about, value) ==
    [cb EXCEPT !.reports = Append(@, [type |-> "warning", about |-> about, value |-> value])]

\* a call on the wrapped command buffer
InstanceCall(cb, fn, args) ==
    [cb EXCEPT !.forwarded = Append(@, [fn |-> fn, args |-> args])]

\* DebugGraphicsPipelineSet that is content with a pipeline of either kind
DebugGraphicsPipelineSetAny(cb) ==
    IF cb.bindings.graphicsPipeline = 0 /\ cb.bindings.computePipeline = 0
    THEN PostError(cb, "no graphics pipeline is bound", 0)
    ELSE cb

DebugGraphicsPipelineSet(cb) ==
    IF cb.bindings.graphicsPipeline = 0
    THEN PostError(cb, "no graphics pipeline is bound", 0)
    ELSE cb

DebugComputePipelineSet(cb) ==
    IF cb.bindings.computePipeline = 0
    THEN PostError(cb, "no compute pipeline is bound", 0)
    ELSE cb

\* DebugVertexBufferSet that also reports the vertex buffer that is bound
DebugVertexBufferSetAlways(cb) ==
    PostError(cb, "no vertex buffer is bound", 0)

DebugVertexBufferSet(cb) ==
    IF cb.bindings.vertexBuffer = 0
    THEN PostError(cb, "no vertex buffer is bound", 0)
    ELSE cb

DebugIndexBufferSet(cb) ==
    IF cb.bindings.indexBuffer = 0
    THEN PostError(cb, "no index buffer is bound", 0)
    ELSE cb

\* the format of the bound vertex buffer against the one the pipeline expects
DebugVertexLayout(cb) ==
    IF /\ cb.bindings.vertexBuffer # 0
       /\ cb.bindings.graphicsPipeline # 0
       /\ BufferDesc(cb.bindings.vertexBuffer).vertexFormat # cb.vertexFormat
    THEN PostError(cb, "vertex layout mismatch", 0)
    ELSE cb

WarnImproperVertices(cb, topologyName, unusedVertices) ==
    PostWarning(cb, "improper number of vertices for " \o topologyName, unusedVertices)

\* DebugNumVertices that reports the vertices missing for one more primitive
DebugNumVerticesMissing(cb, numVertices) ==
    CASE cb.topology = "LineList" /\ numVertices % 2 # 0 ->
             WarnImproperVertices(cb, "line list", 2 - (numVertices % 2))
      [] cb.topology = "TriangleList" /\ numVertices % 3 # 0 ->
             WarnImproperVertices(cb, "triangle list", 3 - (numVertices % 3))
      [] OTHER -> cb

\* list topologies take a fixed number of vertices per primitive
DebugNumVertices(cb, numVertices) ==
    CASE cb.topology = "LineList" /\ numVertices % 2 # 0 ->
             WarnImproperVertices(cb, "line list", numVertices % 2)
      [] cb.topology = "TriangleList" /\ numVertices % 3 # 0 ->
             WarnImproperVertices(cb, "triangle list", numVertices % 3)
      [] OTHER -> cb

DebugNumInstances(cb, numInstances, instanceOffset) ==
    IF instanceOffset >= numInstances
    THEN PostWarning(cb, "no instances will be generated", 0)
    ELSE cb

DebugInstancing(cb) ==
    IF ~cb.caps.hasInstancing
    THEN PostError(cb, "instancing is not supported", 0)
    ELSE cb

DebugStreamOutputIdle(cb) ==
    IF cb.states.streamOutputBusy
    THEN PostError(cb, "drawing while stream-output is active", 0)
    ELSE cb

DebugDraw(cb, numVertices, firstVertex, numInstances, instanceOffset) ==
    DebugStreamOutputIdle(
        DebugNumInstances(
            DebugNumVertices(
                DebugVertexLayout(DebugVertexBufferSet(DebugGraphicsPipelineSet(cb))),
                numVertices),
            numInstances, instanceOffset))

DebugDrawIndexed(cb, numVertices, numInstances, firstIndex, vertexOffset, instanceOffset) ==
    DebugStreamOutputIdle(
        DebugNumInstances(
            DebugNumVertices(
                DebugVertexLayout(
                    DebugIndexBufferSet(DebugVertexBufferSet(DebugGraphicsPipelineSet(cb)))),
                numVertices),
            numInstances, instanceOffset))

DebugThreadGroupLimit(cb, size, limit) ==
    IF size > limit
    THEN PostError(cb, "thread group size exceeds the limit", size - limit)
    ELSE cb

\* AllStages binds to whatever stages there are
DebugShaderStageFlags(cb, shaderStageFlags, validFlags) ==
    IF shaderStageFlags # AllStages /\ ~(shaderStageFlags \subseteq validFlags)
    THEN PostError(cb, "invalid shader stage flags", 0)
    ELSE cb

DebugBufferType(cb, bufferType, compareType) ==
    IF bufferType # compareType
    THEN PostError(cb, "invalid buffer type", 0)
    ELSE cb

\* configuration, clear, render-target, query and synchronization calls
PassThrough(cb, fn, args) == InstanceCall(cb, fn, args)

SetVertexBuffer(cb, buffer) ==
    InstanceCall(
        [DebugBufferType(cb, BufferDesc(buffer).type, "Vertex")
            EXCEPT !.bindings.vertexBuffer = buffer],
        "SetVertexBuffer", <<buffer>>)

\* the array stands for its first buffer in bindings_
SetVertexBufferArray(cb, bufferArray) ==
    InstanceCall(
        [DebugBufferType(cb, BufferDesc(bufferArray[1]).type, "Vertex")
            EXCEPT !.bindings.vertexBuffer = bufferArray[1]],
        "SetVertexBufferArray", <<bufferArray>>)

SetIndexBuffer(cb, buffer) ==
    InstanceCall(
        [DebugBufferType(cb, BufferDesc(buffer).type, "Index")
            EXCEPT !.bindings.indexBuffer = buffer],
        "SetIndexBuffer", <<buffer>>)

BeginStreamOutput(cb, primitiveType) ==
    InstanceCall([cb EXCEPT !.states.streamOutputBusy = TRUE],
                 "BeginStreamOutput", <<primitiveType>>)

\* EndStreamOutput that leaves the stream output marked as busy
EndStreamOutputStillBusy(cb) == InstanceCall(cb, "EndStreamOutput", <<>>)

EndStreamOutput(cb) ==
    InstanceCall([cb EXCEPT !.states.streamOutputBusy = FALSE], "EndStreamOutput", <<>>)

\* the stages of the bound program are the valid ones
SetTexture(cb, texture, slot, shaderStageFlags) ==
    InstanceCall(
        DebugShaderStageFlags(cb, shaderStageFlags,
            IF cb.bindings.graphicsPipeline = 0 THEN ShaderStages
            ELSE GraphicsPipelineDesc(cb.bindings.graphicsPipeline).stages),
        "SetTexture", <<texture, slot, shaderStageFlags>>)

\* SetGraphicsPipeline that keeps the topology of the previous pipeline
SetGraphicsPipelineKeepTopology(cb, graphicsPipeline) ==
    InstanceCall(
        [cb EXCEPT !.bindings.graphicsPipeline = graphicsPipeline,
                   !.vertexFormat = GraphicsPipelineDesc(graphicsPipeline).vertexFormat,
                   !.bindings.vertexBuffer = 0,
                   !.bindings.indexBuffer = 0],
        "SetGraphicsPipeline", <<graphicsPipeline>>)

\* the new pipeline brings its topology and vertex format; the vertex and index
\* buffers bound for the previous pipeline are no longer assumed
SetGraphicsPipeline(cb, graphicsPipeline) ==
    InstanceCall(
        [cb EXCEPT !.bindings.graphicsPipeline = graphicsPipeline,
                   !.topology = GraphicsPipelineDesc(graphicsPipeline).primitiveTopology,
                   !.vertexFormat = GraphicsPipelineDesc(graphicsPipeline).vertexFormat,
                   !.bindings.vertexBuffer = 0,
                   !.bindings.indexBuffer = 0],
        "SetGraphicsPipeline", <<graphicsPipeline>>)

SetComputePipeline(cb, computePipeline) ==
    InstanceCall([cb EXCEPT !.bindings.computePipeline = computePipeline],
                 "SetComputePipeline", <<computePipeline>>)

\* Draw that returns without drawing when the validation found a violation
DrawBlocking(cb, numVertices, firstVertex) ==
    IF DebugDraw(cb, numVertices, firstVertex, 1, 0).reports # <<>>
    THEN DebugDraw(cb, numVertices, firstVertex, 1, 0)
    ELSE InstanceCall(cb, "Draw", <<numVertices, firstVertex>>)

Draw(cb, numVertices, firstVertex) ==
    InstanceCall(DebugDraw(cb, numVertices, firstVertex, 1, 0),
                 "Draw", <<numVertices, firstVertex>>)

\* DrawIndexed(numVertices, firstIndex) that does not look at the index buffer
DrawIndexedAsDraw(cb, numVertices, firstIndex) ==
    InstanceCall(DebugDraw(cb, numVertices, 0, 1, 0),
                 "DrawIndexed", <<numVertices, firstIndex>>)

DrawIndexed(cb, numVertices, firstIndex) ==
    InstanceCall(DebugDrawIndexed(cb, numVertices, 1, firstIndex, 0, 0),
                 "DrawIndexed", <<numVertices, firstIndex>>)

\* the overload DrawIndexed(numVertices, firstIndex, vertexOffset)
DrawIndexedOffset(cb, numVertices, firstIndex, vertexOffset) ==
    InstanceCall(DebugDrawIndexed(cb, numVertices, 1, firstIndex, vertexOffset, 0),
                 "DrawIndexed", <<numVertices, firstIndex, vertexOffset>>)

DrawInstanced(cb, numVertices, firstVertex, numInstances) ==
    InstanceCall(DebugDraw(DebugInstancing(cb), numVertices, firstVertex, numInstances, 0),
                 "DrawInstanced", <<numVertices, firstVertex, numInstances>>)

\* the overload DrawInstanced(numVertices, firstVertex, numInstances, instanceOffset)
DrawInstancedOffset(cb, numVertices, firstVertex, numInstances, instanceOffset) ==
    InstanceCall(DebugDraw(DebugInstancing(cb), numVertices, firstVertex, numInstances,
                           instanceOffset),
                 "DrawInstanced", <<numVertices, firstVertex, numInstances, instanceOffset>>)

DrawIndexedInstanced(cb, numVertices, numInstances, firstIndex) ==
    InstanceCall(DebugDrawIndexed(DebugInstancing(cb), numVertices, numInstances,
                                  firstIndex, 0, 0),
                 "DrawIndexedInstanced", <<numVertices, numInstances, firstIndex>>)

\* the overload DrawIndexedInstanced(numVertices, numInstances, firstIndex, vertexOffset)
DrawIndexedInstancedOffset(cb, numVertices, numInstances, firstIndex, vertexOffset) ==
    InstanceCall(DebugDrawIndexed(DebugInstancing(cb), numVertices, numInstances,
                                  firstIndex, vertexOffset, 0),
                 "DrawIndexedInstanced",
                 <<numVertices, numInstances, firstIndex, vertexOffset>>)

\* the overload with vertexOffset and instanceOffset
DrawIndexedInstancedOffsets(cb, numVertices, numInstances, firstIndex, vertexOffset, instanceOffset) ==
    InstanceCall(DebugDrawIndexed(DebugInstancing(cb), numVertices, numInstances,
                                  firstIndex, vertexOffset, instanceOffset),
                 "DrawIndexedInstanced",
                 <<numVertices, numInstances, firstIndex, vertexOffset, instanceOffset>>)

Dispatch(cb, groupSizeX, groupSizeY, groupSizeZ) ==
    InstanceCall(
        DebugThreadGroupLimit(
            DebugThreadGroupLimit(
                DebugThreadGroupLimit(DebugComputePipelineSet(cb),
                    groupSizeX, cb.caps.maxNumComputeShaderWorkGroups[1]),
                groupSizeY, cb.caps.maxNumComputeShaderWorkGroups[2]),
            groupSizeZ, cb.caps.maxNumComputeShaderWorkGroups[3]),
        "Dispatch", <<groupSizeX, groupSizeY, groupSizeZ>>)

(***************************************************************************)
(* Common states: the scalar setters.  A GLenum is held as its name, a     *)
(* GLboolean as 0 (GL_FALSE) or 1 (GL_TRUE).                               *)
(***************************************************************************)
glDepthFunc(s, func) ==
    [s EXCEPT !.calls = Append(@, GLCall("glDepthFunc", "-", 0, func))]

glPolygonMode(s, face, mode) ==
    [s EXCEPT !.calls = Append(@, GLCall("glPolygonMode", face, 0, mode))]

glCullFace(s, mode) ==
    [s EXCEPT !.calls = Append(@, GLCall("glCullFace", "-", 0, mode))]

glFrontFace(s, mode) ==
    [s EXCEPT !.calls = Append(@, GLCall("glFrontFace", "-", 0, mode))]

glDepthMask(s, flag) ==
    [s EXCEPT !.calls = Append(@, GLCall("glDepthMask", "-", 0, flag))]

\* SetDepthFunc that calls the driver without storing the function
SetDepthFuncNoStore(s, func) ==
    IF s.commonState.depthFunc # func
    THEN glDepthFunc(s, func)
    ELSE s

SetDepthFunc(s, func) ==
    IF s.commonState.depthFunc # func
    THEN glDepthFunc([s EXCEPT !.commonState.depthFunc = func], func)
    ELSE s

SetPolygonMode(s, mode) ==
    IF s.commonState.polygonMode # mode
    THEN glPolygonMode([s EXCEPT !.commonState.polygonMode = mode], "GL_FRONT_AND_BACK", mode)
    ELSE s

SetCullFace(s, face) ==
    IF s.commonState.cullFace # face
    THEN glCullFace([s EXCEPT !.commonState.cullFace = face], face)
    ELSE s

SetFrontFace(s, mode) ==
    IF s.commonState.frontFace # mode
    THEN glFrontFace([s EXCEPT !.commonState.frontFace = mode], mode)
    ELSE s

SetDepthMask(s, flag) ==
    IF s.commonState.depthMask # flag
    THEN glDepthMask([s EXCEPT !.commonState.depthMask = flag], flag)
    ELSE s

(***************************************************************************)
(* The object and the driver as one record; committing a method's result.  *)
(***************************************************************************)
Cur ==
    [values |-> values, valueStack |-> valueStack,
     boundBuffers |-> boundBuffers, boundBufferStack |-> boundBufferStack,
     layers |-> layers, activeTexture |-> activeTexture,
     activeTextureLayer |-> activeTextureLayer,
     boundTextureStack |-> boundTextureStack,
     boundProgram |-> boundProgram, boundProgramStack |-> boundProgramStack,
     stencil |-> stencil, currentContextHeight |-> currentContextHeight,
     emulateClipControl |-> emulateClipControl, colorMask |-> colorMask,
     commonState |-> commonState,
     glProcs |-> glProcs, glEnabled |-> glEnabled, glDrawBuf |-> glDrawBuf,
     calls |-> <<>>, vector |-> <<>>, thrown |-> "", ub |-> FALSE]

\* the members and the driver after a method returned r
Commit(r) ==
    /\ values' = r.values
    /\ valueStack' = r.valueStack
    /\ boundBuffers' = r.boundBuffers
    /\ boundBufferStack' = r.boundBufferStack
    /\ layers' = r.layers
    /\ activeTexture' = r.activeTexture
    /\ activeTextureLayer' = r.activeTextureLayer
    /\ boundTextureStack' = r.boundTextureStack
    /\ boundProgram' = r.boundProgram
    /\ boundProgramStack' = r.boundProgramStack
    /\ stencil' = r.stencil
    /\ currentContextHeight' = r.currentContextHeight
    /\ emulateClipControl' = r.emulateClipControl
    /\ glProcs' = r.glProcs
    /\ glEnabled' = r.glEnabled
    /\ colorMask' = r.colorMask
    /\ commonState' = r.commonState
    /\ glDrawBuf' = r.glDrawBuf
    /\ native' = LastNative(native, r.calls)
    /\ UNCHANGED <<active, constructed, dxVars, dbgVars>>

\* Undefined behaviour (top/pop of an empty stack): the process crashes, or
\* it goes on after Set / BindBuffer ran on whatever the dangling reference
\* held.  The model does not follow the process any further.
Undefined(r) ==
    \/ /\ status' = "crashed"
       /\ Commit(r)
    \/ /\ status' = "undefined"
       /\ \E state \in GLState, value \in BOOLEAN : Commit(Set(r, state, value))
    \/ /\ status' = "undefined"
       /\ \E target \in GLBufferTarget, buffer \in Buffers : Commit(BindBuffer(r, target, buffer))

\* the push-time records kept beside the two stacks
Shadow(r, capPush, bufPush) ==
    /\ capShadow' = SubSeq(capShadow, 1, Min2(Len(capShadow), Len(r.valueStack))) \o capPush
    /\ bufShadow' = SubSeq(bufShadow, 1, Min2(Len(bufShadow), Len(r.boundBufferStack))) \o bufPush
    /\ progShadow' = SubSeq(progShadow, 1, Min2(Len(progShadow), Len(r.boundProgramStack)))

NoRun ==
    [op |-> "none", slot |-> "-", args |-> <<>>, pre |-> <<>>, calls |-> <<>>,
     vector |-> <<>>, thrown |-> <<>>]

\* the call counter: w is the longest run it follows (0: the call is not
\* counted; below 0: every call since construction is counted, with its name)
Observe(op, slot, arg, pre, r, w) ==
    run' = IF w = 0 THEN NoRun
           ELSE IF w < 0
           THEN [op |-> "all", slot |-> "-",
                 args |-> Append(run.args, [op |-> op, slot |-> slot, arg |-> arg]),
                 pre |-> Append(run.pre, pre), calls |-> Append(run.calls, r.calls),
                 vector |-> Append(run.vector, r.vector),
                 thrown |-> Append(run.thrown, r.thrown)]
           ELSE IF run.op = op /\ run.slot = slot /\ Len(run.args) < w
           THEN [run EXCEPT !.args = Append(@, arg), !.pre = Append(@, pre),
                            !.calls = Append(@, r.calls),
                            !.vector = Append(@, r.vector),
                            !.thrown = Append(@, r.thrown)]
           ELSE [op |-> op, slot |-> slot, args |-> <<arg>>, pre |-> <<pre>>,
                 calls |-> <<r.calls>>, vector |-> <<r.vector>>,
                 thrown |-> <<r.thrown>>]

Call(op, slot, arg, pre, r, w) ==
    /\ status = "ok"
    /\ IF r.ub
       THEN Undefined(r) /\ UNCHANGED <<capShadow, bufShadow, progShadow>>
       ELSE Commit(r) /\ status' = "ok" /\ Shadow(r, <<>>, <<>>)
    /\ Observe(op, slot, arg, pre, r, w)

(***************************************************************************)
(* One action per method.                                                  *)
(***************************************************************************)
CallReset(w) == Call("Reset", "-", 0, 0, Reset(Cur), w)

CallSet(state, value, w) == Call("Set", state, value, values[state], Set(Cur, state, value), w)

CallEnable(state, w) == Call("Enable", state, TRUE, values[state], Enable(Cur, state), w)

CallDisable(state, w) == Call("Disable", state, FALSE, values[state], Disable(Cur, state), w)

CallPushState(state, w) ==
    /\ status = "ok"
    /\ Commit(PushState(Cur, state)) /\ status' = "ok"
    /\ Shadow(PushState(Cur, state), <<[state |-> state, enabled |-> values[state]]>>, <<>>)
    /\ Observe("PushState", state, 0, values[state], PushState(Cur, state), w)

CallPopState(w) ==
    Call("PopState", "-", 0, Cur, PopState(Cur), w)

CallPopStates(count, w) == Call("PopStates", "-", count, 0, PopStates(Cur, count), w)

CallBindBuffer(target, buffer, w) ==
    Call("BindBuffer", target, buffer, boundBuffers[target], BindBuffer(Cur, target, buffer), w)

CallBindBufferBase(target, index, buffer, w) ==
    Call("BindBufferBase", target, buffer, boundBuffers,
         BindBufferBase(Cur, target, index, buffer), w)

CallBindVertexArray(buffer, w) ==
    Call("BindVertexArray", "-", buffer, boundBuffers, BindVertexArray(Cur, buffer), w)

CallForcedBindBuffer(target, buffer, w) ==
    Call("ForcedBindBuffer", target, buffer, boundBuffers[target],
         ForcedBindBuffer(Cur, target, buffer), w)

CallPushBoundBuffer(target, w) ==
    /\ status = "ok"
    /\ Commit(PushBoundBuffer(Cur, target)) /\ status' = "ok"
    /\ Shadow(PushBoundBuffer(Cur, target), <<>>,
              <<[target |-> target, buffer |-> boundBuffers[target]]>>)
    /\ Observe("PushBoundBuffer", target, 0, boundBuffers[target],
               PushBoundBuffer(Cur, target), w)

CallPopBoundBuffer(w) == Call("PopBoundBuffer", "-", 0, Cur, PopBoundBuffer(Cur), w)

CallActiveTexture(layer, w) ==
    Call("ActiveTexture", "-", layer, activeTexture, ActiveTexture(Cur, layer), w)

CallBindTexture(target, texture, w) ==
    Call("BindTexture", target, texture, layers[activeTextureLayer][target],
         BindTexture(Cur, target, texture), w)

CallForcedBindTexture(target, texture, w) ==
    Call("ForcedBindTexture", target, texture, layers[activeTextureLayer][target],
         ForcedBindTexture(Cur, target, texture), w)

CallBindTextureGLTexture(texture, w) ==
    Call("BindTexture(texture)", "-", texture, layers[activeTextureLayer],
         BindTextureGLTexture(Cur, texture), w)

CallForcedBindTextureGLTexture(texture, w) ==
    Call("ForcedBindTexture(texture)", "-", texture, layers[activeTextureLayer],
         ForcedBindTextureGLTexture(Cur, texture), w)

CallPushBoundTexture(layer, target, w) ==
    Call("PushBoundTexture", target, layer, layers[layer][target],
         PushBoundTexture(Cur, layer, target), w)

CallPopBoundTexture(w) == Call("PopBoundTexture", "-", 0, Cur, PopBoundTexture(Cur), w)

CallBindShaderProgram(program, w) ==
    Call("BindShaderProgram", "-", program, boundProgram, BindShaderProgram(Cur, program), w)

CallPushShaderProgram(w) ==
    /\ status = "ok"
    /\ Commit(PushShaderProgram(Cur)) /\ status' = "ok"
    /\ UNCHANGED <<capShadow, bufShadow>>
    /\ progShadow' = Append(progShadow, boundProgram)
    /\ Observe("PushShaderProgram", "-", 0, boundProgram, PushShaderProgram(Cur), w)

CallPopShaderProgram(w) == Call("PopShaderProgram", "-", 0, Cur, PopShaderProgram(Cur), w)

CallSetStencilState(face, state, w) ==
    Call("SetStencilState", face, state, stencil, SetStencilState(Cur, face, state), w)

CallMakeCurrentInfo(contextHeight, w) ==
    Call("MakeCurrentInfo", "-", contextHeight, 0, MakeCurrentInfo(Cur, contextHeight), w)

CallSetViewports(viewports, w) ==
    Call("SetViewports", "-", viewports, 0, SetViewports(Cur, viewports), w)

CallSetDepthRanges(depthRanges, w) ==
    Call("SetDepthRanges", "-", depthRanges, 0, SetDepthRanges(Cur, depthRanges), w)

CallSetScissors(scissors, w) ==
    Call("SetScissors", "-", scissors, 0, SetScissors(Cur, scissors), w)

CallSetBlendStates(blendStates, blendEnabled, w) ==
    Call("SetBlendStates", "-", [states |-> blendStates, enabled |-> blendEnabled],
         [colorMask |-> colorMask, drawBuffer |-> glDrawBuf],
         SetBlendStates(Cur, blendStates, blendEnabled), w)

CallSetClipControl(origin, depth, w) ==
    Call("SetClipControl", "-", origin, 0, SetClipControl(Cur, origin, depth), w)

CallSetDepthFunc(func, w) ==
    Call("SetDepthFunc", "-", func, commonState, SetDepthFunc(Cur, func), w)

CallSetPolygonMode(mode, w) ==
    Call("SetPolygonMode", "-", mode, commonState, SetPolygonMode(Cur, mode), w)

CallSetCullFace(face, w) ==
    Call("SetCullFace", "-", face, commonState, SetCullFace(Cur, face), w)

CallSetFrontFace(mode, w) ==
    Call("SetFrontFace", "-", mode, commonState, SetFrontFace(Cur, mode), w)

CallSetDepthMask(flag, w) ==
    Call("SetDepthMask", "-", flag, commonState, SetDepthMask(Cur, flag), w)

\* the decorator with nothing forwarded and nothing reported yet
DbgCur ==
    [topology |-> topology_, vertexFormat |-> vertexFormat_, bindings |-> bindings_,
     states |-> states_, caps |-> caps_, forwarded |-> <<>>, reports |-> <<>>]

\* the members after a method returned r, and the history: w = 1 keeps the
\* latest call, w below 0 every call since construction
DbgCall(fn, args, r, w) ==
    /\ topology_' = r.topology
    /\ vertexFormat_' = r.vertexFormat
    /\ bindings_' = r.bindings
    /\ states_' = r.states
    /\ caps_' = r.caps
    /\ dbgLog' = (IF w < 0 THEN dbgLog ELSE <<>>)
                  \o <<[fn |-> fn, args |-> args, forwarded |-> r.forwarded,
                        reports |-> r.reports]>>
    /\ UNCHANGED <<glVars, dxVars>>

\* the default member initializers of DbgCommandBuffer
InitialTopology == "TriangleList"

InitialVertexFormat == ""

InitialBindings ==
    [vertexBuffer |-> 0, indexBuffer |-> 0, streamOutput |-> 0,
     graphicsPipeline |-> 0, computePipeline |-> 0]

InitialStates == [streamOutputBusy |-> FALSE]

\* DbgCommandBuffer::DbgCommandBuffer for a render system with the given caps
NewDbgCommandBuffer(caps) ==
    /\ topology_' = InitialTopology
    /\ vertexFormat_' = InitialVertexFormat
    /\ bindings_' = InitialBindings
    /\ states_' = InitialStates
    /\ caps_' = caps
    /\ dbgLog' = <<>>
    /\ UNCHANGED <<glVars, dxVars>>

CallPassThrough(fn, args, w) == DbgCall(fn, args, PassThrough(DbgCur, fn, args), w)

CallSetVertexBuffer(buffer, w) ==
    DbgCall("SetVertexBuffer", <<buffer>>, SetVertexBuffer(DbgCur, buffer), w)

CallSetVertexBufferArray(bufferArray, w) ==
    DbgCall("SetVertexBufferArray", <<bufferArray>>,
            SetVertexBufferArray(DbgCur, bufferArray), w)

CallSetIndexBuffer(buffer, w) ==
    DbgCall("SetIndexBuffer", <<buffer>>, SetIndexBuffer(DbgCur, buffer), w)

CallBeginStreamOutput(primitiveType, w) ==
    DbgCall("BeginStreamOutput", <<primitiveType>>,
            BeginStreamOutput(DbgCur, primitiveType), w)

CallEndStreamOutput(w) == DbgCall("EndStreamOutput", <<>>, EndStreamOutput(DbgCur), w)

CallSetTexture(texture, slot, shaderStageFlags, w) ==
    DbgCall("SetTexture", <<texture, slot, shaderStageFlags>>,
            SetTexture(DbgCur, texture, slot, shaderStageFlags), w)

CallSetGraphicsPipeline(graphicsPipeline, w) ==
    DbgCall("SetGraphicsPipeline", <<graphicsPipeline>>,
            SetGraphicsPipeline(DbgCur, graphicsPipeline), w)

CallSetComputePipeline(computePipeline, w) ==
    DbgCall("SetComputePipeline", <<computePipeline>>,
            SetComputePipeline(DbgCur, computePipeline), w)

CallDraw(numVertices, firstVertex, w) ==
    DbgCall("Draw", <<numVertices, firstVertex>>, Draw(DbgCur, numVertices, firstVertex), w)

CallDrawIndexed(numVertices, firstIndex, w) ==
    DbgCall("DrawIndexed", <<numVertices, firstIndex>>,
            DrawIndexed(DbgCur, numVertices, firstIndex), w)

CallDrawIndexedOffset(numVertices, firstIndex, vertexOffset, w) ==
    DbgCall("DrawIndexed", <<numVertices, firstIndex, vertexOffset>>,
            DrawIndexedOffset(DbgCur, numVertices, firstIndex, vertexOffset), w)

CallDrawInstanced(numVertices, firstVertex, numInstances, w) ==
    DbgCall("DrawInstanced", <<numVertices, firstVertex, numInstances>>,
            DrawInstanced(DbgCur, numVertices, firstVertex, numInstances), w)

CallDrawInstancedOffset(numVertices, firstVertex, numInstances, instanceOffset, w) ==
    DbgCall("DrawInstanced", <<numVertices, firstVertex, numInstances, instanceOffset>>,
            DrawInstancedOffset(DbgCur, numVertices, firstVertex, numInstances,
                                instanceOffset), w)

CallDrawIndexedInstanced(numVertices, numInstances, firstIndex, w) ==
    DbgCall("DrawIndexedInstanced", <<numVertices, numInstances, firstIndex>>,
            DrawIndexedInstanced(DbgCur, numVertices, numInstances, firstIndex), w)

CallDrawIndexedInstancedOffset(numVertices, numInstances, firstIndex, vertexOffset, w) ==
    DbgCall("DrawIndexedInstanced", <<numVertices, numInstances, firstIndex, vertexOffset>>,
            DrawIndexedInstancedOffset(DbgCur, numVertices, numInstances, firstIndex,
                                       vertexOffset), w)

CallDrawIndexedInstancedOffsets(numVertices, numInstances, firstIndex, vertexOffset, instanceOffset, w) ==
    DbgCall("DrawIndexedInstanced",
            <<numVertices, numInstances, firstIndex, vertexOffset, instanceOffset>>,
            DrawIndexedInstancedOffsets(DbgCur, numVertices, numInstances, firstIndex,
                                        vertexOffset, instanceOffset), w)

CallDispatch(groupSizeX, groupSizeY, groupSizeZ, w) ==
    DbgCall("Dispatch", <<groupSizeX, groupSizeY, groupSizeZ>>,
            Dispatch(DbgCur, groupSizeX, groupSizeY, groupSizeZ), w)

\* a call of DXThrowIfFailed as the call counter of Direct3D records it
DXCall(caller, errorCode, info, d3d12, r) ==
    [caller |-> caller, errorCode |-> errorCode, info |-> info, d3d12 |-> d3d12,
     thrown |-> r.thrown, what |-> r.what]

\* D3D11Sampler::D3D11Sampler: hr is what ID3D11Device::CreateSamplerState
\* returned; the object exists once the constructor returned normally
CreateSampler(hr, d3d12) ==
    LET r == DXThrowIfFailed(hr, "failed to create D3D11 sampler state", d3d12)
    IN  /\ samplers < MaxSamplers
        /\ dxCall' = DXCall("D3D11Sampler", hr, "failed to create D3D11 sampler state",
                            d3d12, r)
        /\ samplers' = IF r.thrown THEN samplers ELSE samplers + 1
        /\ UNCHANGED <<glVars, dbgVars>>

\* DXGetVideoAdapterDesc, for one output of the adapter: hr is what
\* IDXGIOutput::GetDisplayModeList returned
GetDisplayModeList(hr, d3d12) ==
    LET info == "failed to get display mode list with format DXGI_FORMAT_R8G8B8A8_UNORM"
        r == DXThrowIfFailed(hr, info, d3d12)
    IN  /\ dxCall' = DXCall("DXGetVideoAdapterDesc", hr, info, d3d12, r)
        /\ UNCHANGED <<samplers, glVars, dbgVars>>

\* the extension loader of the driver resolves one more optional entry point
LoadGLProc(proc) ==
    /\ status = "ok"
    /\ proc \notin glProcs
    /\ Commit([Cur EXCEPT !.glProcs = @ \cup {proc}])
    /\ UNCHANGED <<status, capShadow, bufShadow, progShadow>>
    /\ run' = NoRun

\* the process constructs one more cache; the members of the cache the model
\* follows and the driver are not touched by the constructor
NewGLStateManager ==
    /\ status = "ok"
    /\ constructed < MaxManagers
    /\ constructed' = constructed + 1
    /\ active' = GLStateManager(active, constructed + 1)
    /\ UNCHANGED <<cacheVars, dxVars, dbgVars>>

(***************************************************************************)
(* Construction.                                                           *)
(***************************************************************************)
\* the default member initializer of textureState_.activeTexture
InitialActiveTexture == 0

\* the default member initializer of shaderState_.boundProgram
InitialBoundProgram == 0

\* the default member initializers of GLStencil (commonState_.stencil[0], [1])
InitialStencil ==
    [sfail |-> "GL_KEEP", dpfail |-> "GL_KEEP", dppass |-> "GL_KEEP",
     func |-> "GL_ALWAYS", ref |-> 0, mask |-> 0, writeMask |-> 0]

\* the default member initializer of currentContextHeight_
InitialContextHeight == 0

\* the default member initializer of emulateClipControl_
InitialEmulateClipControl == FALSE

\* the default member initializer of commonState_.colorMask
InitialColorMask == [r |-> TRUE, g |-> TRUE, b |-> TRUE, a |-> TRUE]

\* the default member initializers of commonState_.depthFunc, polygonMode,
\* cullFace, frontFace and depthMask
InitialCommonState ==
    [depthFunc |-> "GL_LESS", polygonMode |-> "GL_FILL", cullFace |-> "GL_BACK",
     frontFace |-> "GL_CCW", depthMask |-> 1]

\* GLStateManager::GLStateManager: every mirror is filled with zero; the
\* context the cache is created for has any set of capabilities enabled.
Init ==
    /\ values = [i \in GLState |-> FALSE]
    /\ valueStack = <<>>
    /\ boundBuffers = [t \in GLBufferTarget |-> 0]
    /\ boundBufferStack = <<>>
    /\ layers = [l \in 0..(numTextureLayers - 1) |-> [t \in GLTextureTarget |-> 0]]
    /\ activeTexture = InitialActiveTexture
    /\ activeTextureLayer = 0
    /\ boundTextureStack = <<>>
    /\ boundProgram = InitialBoundProgram
    /\ boundProgramStack = <<>>
    /\ stencil = [i \in {0, 1} |-> InitialStencil]
    /\ currentContextHeight = InitialContextHeight
    /\ emulateClipControl = InitialEmulateClipControl
    /\ colorMask = InitialColorMask
    /\ commonState = InitialCommonState
    /\ glDrawBuf = [base |-> "GL_BACK", offset |-> 0]
    /\ glProcs = {}
    /\ glEnabled \in [GLCaps -> BOOLEAN]
    /\ status = "ok"
    /\ capShadow = <<>>
    /\ bufShadow = <<>>
    /\ progShadow = <<>>
    /\ run = NoRun
    /\ native = NoNative
    /\ constructed = 1
    /\ active = GLStateManager(0, 1)
    /\ samplers = 0
    /\ dxCall = [caller |-> "none", errorCode |-> 0, info |-> "", d3d12 |-> FALSE,
                 thrown |-> FALSE, what |-> ""]
    /\ topology_ = InitialTopology
    /\ vertexFormat_ = InitialVertexFormat
    /\ bindings_ = InitialBindings
    /\ states_ = InitialStates
    /\ caps_ = [hasInstancing |-> TRUE, maxNumComputeShaderWorkGroups |-> <<1, 1, 1>>]
    /\ dbgLog = <<>>

(***************************************************************************)
(* The capability toggles, with the call counter attached.                 *)
(***************************************************************************)
NextCaps ==
    \/ CallReset(MaxRun)
    \/ \E state \in GLState, value \in BOOLEAN : CallSet(state, value, MaxRun)
    \/ \E state \in GLState : CallEnable(state, MaxRun)
    \/ \E state \in GLState : CallDisable(state, MaxRun)
    \/ \E state \in GLState : Len(valueStack) < MaxValueStack /\ CallPushState(state, MaxRun)
    \/ CallPopState(MaxRun)
    \/ \E count \in 0..(Len(valueStack) + 1) : CallPopStates(count, MaxRun)

SpecCaps == Init /\ [][NextCaps]_vars

(***************************************************************************)
(* Binding buffers (no save/restore); the call counter follows the runs of *)
(* BindBuffer.                                                             *)
(***************************************************************************)
NextBind ==
    \/ \E target \in GLBufferTarget, buffer \in Buffers : CallBindBuffer(target, buffer, MaxRun)
    \/ \E target \in GLBufferTarget, index \in Indices, buffer \in Buffers :
           CallBindBufferBase(target, index, buffer, 1)
    \/ \E buffer \in Buffers : CallBindVertexArray(buffer, 1)
    \/ \E target \in GLBufferTarget, buffer \in Buffers :
           CallForcedBindBuffer(target, buffer, 1)

SpecBind == Init /\ [][NextBind]_vars

(***************************************************************************)
(* The unconditional binds of buffers and textures; the call counter       *)
(* follows one call.                                                       *)
(***************************************************************************)
NextForced ==
    \/ \E target \in FewTargets, index \in Indices, buffer \in Buffers :
           CallBindBufferBase(target, index, buffer, 1)
    \/ \E buffer \in Buffers : CallBindVertexArray(buffer, 1)
    \/ \E target \in FewTargets, buffer \in Buffers :
           CallForcedBindBuffer(target, buffer, 1)
    \/ \E layer \in Layers : CallActiveTexture(layer, 1)
    \/ \E texture \in Textures : CallForcedBindTexture("TEXTURE_2D", texture, 1)

SpecForced == Init /\ [][NextForced]_vars

(***************************************************************************)
(* Pushes, mutations and pops of capabilities and buffer bindings mixed,   *)
(* nested to a total depth of MaxNest.  The call counter follows the pops. *)
(***************************************************************************)
Nest == Len(valueStack) + Len(boundBufferStack)

NextPushPop ==
    \/ \E state \in GLState, value \in BOOLEAN : CallSet(state, value, 0)
    \/ \E state \in GLState : CallEnable(state, 0)
    \/ \E state \in GLState : CallDisable(state, 0)
    \/ \E state \in GLState : Nest < MaxNest /\ CallPushState(state, 0)
    \/ Len(valueStack) > 0 /\ CallPopState(1)
    \/ \E count \in 0..Len(valueStack) : CallPopStates(count, 1)
    \/ \E target \in FewTargets, buffer \in FewBuffers : CallBindBuffer(target, buffer, 0)
    \/ \E target \in FewTargets, buffer \in FewBuffers :
           CallBindBufferBase(target, 0, buffer, 0)
    \/ \E buffer \in FewBuffers : CallBindVertexArray(buffer, 0)
    \/ \E target \in FewTargets, buffer \in FewBuffers :
           CallForcedBindBuffer(target, buffer, 0)
    \/ \E target \in FewTargets : Nest < MaxNest /\ CallPushBoundBuffer(target, 0)
    \/ Len(boundBufferStack) > 0 /\ CallPopBoundBuffer(1)

SpecPushPop == Init /\ [][NextPushPop]_vars

(***************************************************************************)
(* Binding textures in the layers (no save/restore); the call counter      *)
(* follows one call.                                                       *)
(***************************************************************************)
NextTex ==
    \/ \E layer \in Layers : CallActiveTexture(layer, 1)
    \/ \E target \in GLTextureTarget, texture \in Textures : CallBindTexture(target, texture, 1)
    \/ \E target \in GLTextureTarget, texture \in Textures :
           CallForcedBindTexture(target, texture, 1)

SpecTex == Init /\ [][NextTex]_vars

(***************************************************************************)
(* Saving and restoring texture bindings of one target in any layer; the   *)
(* call counter follows the pushes and the pops.                           *)
(***************************************************************************)
NextTexStack ==
    \/ \E layer \in Layers : CallActiveTexture(layer, 0)
    \/ \E texture \in Textures : CallBindTexture("TEXTURE_2D", texture, 0)
    \/ \E layer \in Layers :
           Len(boundTextureStack) < MaxTextureStack
               /\ CallPushBoundTexture(layer, "TEXTURE_2D", 1)
    \/ Len(boundTextureStack) > 0 /\ CallPopBoundTexture(1)

SpecTexStack == Init /\ [][NextTexStack]_vars

(***************************************************************************)
(* A client that works on layer 2 of a fresh cache with the textures 7 and *)
(* 9; every call since construction is counted, up to MaxTrace calls.      *)
(***************************************************************************)
NextScenario ==
    /\ Len(run.args) < MaxTrace
    /\ \/ \E layer \in {0, 2} : CallActiveTexture(layer, -1)
       \/ \E texture \in {7, 9} : CallBindTexture("TEXTURE_2D", texture, -1)
       \/ CallPushBoundTexture(2, "TEXTURE_2D", -1)
       \/ Len(boundTextureStack) > 0 /\ CallPopBoundTexture(-1)

SpecScenario == Init /\ [][NextScenario]_vars

(***************************************************************************)
(* Binding, saving and restoring the shader program; the call counter      *)
(* follows one call.                                                       *)
(***************************************************************************)
NextShader ==
    \/ \E program \in Programs : CallBindShaderProgram(program, 1)
    \/ Len(boundProgramStack) < MaxProgramStack /\ CallPushShaderProgram(1)
    \/ Len(boundProgramStack) > 0 /\ CallPopShaderProgram(1)

SpecShader == Init /\ [][NextShader]_vars

(***************************************************************************)
(* Setting the stencil state of the faces; the call counter follows one    *)
(* call.  The client submits the default state, the states that differ     *)
(* from it in one field, and one state that differs from it in every       *)
(* field.                                                                  *)
(***************************************************************************)
Faces == {"GL_FRONT", "GL_BACK", "GL_FRONT_AND_BACK"}

Stencils ==
    {InitialStencil,
     [InitialStencil EXCEPT !.sfail = "GL_REPLACE"],
     [InitialStencil EXCEPT !.dpfail = "GL_REPLACE"],
     [InitialStencil EXCEPT !.dppass = "GL_REPLACE"],
     [InitialStencil EXCEPT !.func = "GL_LESS"],
     [sfail |-> "GL_REPLACE", dpfail |-> "GL_INCR", dppass |-> "GL_DECR",
      func |-> "GL_LESS", ref |-> MaxStencilValue, mask |-> MaxStencilValue,
      writeMask |-> MaxStencilValue]}
    \cup {[InitialStencil EXCEPT !.ref = v] : v \in 1..MaxStencilValue}
    \cup {[InitialStencil EXCEPT !.mask = v] : v \in 1..MaxStencilValue}
    \cup {[InitialStencil EXCEPT !.writeMask = v] : v \in 1..MaxStencilValue}

NextStencil ==
    \E face \in Faces, state \in Stencils : CallSetStencilState(face, state, 1)

SpecStencil == Init /\ [][NextStencil]_vars

(***************************************************************************)
(* Viewports, depth ranges and scissors, with the context height and the   *)
(* clip-control emulation changing in between; the call counter follows    *)
(* one call.                                                               *)
(***************************************************************************)
Heights == 0..MaxHeight

\* 2 x 1 at the origin, and 1.5 x 0.5 at (0.5, 1)
Viewports ==
    {[x |-> 0, y |-> 0, width |-> 2 * GLfloatOne, height |-> GLfloatOne],
     [x |-> GLfloatOne \div 2, y |-> GLfloatOne,
      width |-> 3 * (GLfloatOne \div 2), height |-> GLfloatOne \div 2]}

DepthRanges == {[minDepth |-> 0, maxDepth |-> 2], [minDepth |-> 1, maxDepth |-> 2]}

Scissors ==
    {[x |-> 0, y |-> 0, width |-> 2, height |-> 1],
     [x |-> 1, y |-> 1, width |-> 1, height |-> 1]}

ArrayProcs == {"glViewportArrayv", "glDepthRangeArrayv", "glScissorArrayv"}

\* the lists of at most MaxList elements of S
ListsOf(S) == UNION {[1..n -> S] : n \in 0..MaxList}

NextView ==
    \/ \E contextHeight \in Heights : CallMakeCurrentInfo(contextHeight, 1)
    \/ \E origin \in {"GL_LOWER_LEFT", "GL_UPPER_LEFT"} :
           CallSetClipControl(origin, "GL_NEGATIVE_ONE_TO_ONE", 1)
    \/ \E proc \in ArrayProcs : LoadGLProc(proc)
    \/ \E viewports \in ListsOf(Viewports) : CallSetViewports(viewports, 1)
    \/ \E depthRanges \in ListsOf(DepthRanges) : CallSetDepthRanges(depthRanges, 1)
    \/ \E scissors \in ListsOf(Scissors) : CallSetScissors(scissors, 1)

SpecView == Init /\ [][NextView]_vars

(***************************************************************************)
(* Blend states: lists of up to MaxBlendStates states, with blending on    *)
(* or off, while the driver resolves the two indexed entry points; the     *)
(* call counter follows one call.                                          *)
(***************************************************************************)
\* alpha blending with the full mask, additive blending with a partial mask
Blends ==
    {[srcColor |-> "GL_SRC_ALPHA", destColor |-> "GL_ONE_MINUS_SRC_ALPHA",
      srcAlpha |-> "GL_ONE", destAlpha |-> "GL_ZERO",
      colorMask |-> [r |-> TRUE, g |-> TRUE, b |-> TRUE, a |-> TRUE]],
     [srcColor |-> "GL_ONE", destColor |-> "GL_ONE",
      srcAlpha |-> "GL_ONE", destAlpha |-> "GL_ONE",
      colorMask |-> [r |-> TRUE, g |-> FALSE, b |-> FALSE, a |-> TRUE]]}

BlendLists == UNION {[1..n -> Blends] : n \in 0..MaxBlendStates}

BlendProcs == {"glBlendFuncSeparatei", "glColorMaski"}

NextBlend ==
    \/ \E proc \in BlendProcs : LoadGLProc(proc)
    \/ \E blendStates \in BlendLists, blendEnabled \in BOOLEAN :
           CallSetBlendStates(blendStates, blendEnabled, 1)

SpecBlend == Init /\ [][NextBlend]_vars

(***************************************************************************)
(* Direct3D: native calls returning success codes, failure codes the       *)
(* switch names (in every build, or only with Direct3D 12 enabled) and     *)
(* failure codes it does not name.                                         *)
(***************************************************************************)
\* S_OK, S_FALSE, DXGI_STATUS_OCCLUDED; E_FAIL, E_INVALIDARG, E_OUTOFMEMORY,
\* DXGI_ERROR_DEVICE_REMOVED, D3D11_ERROR_TOO_MANY_UNIQUE_STATE_OBJECTS;
\* D3D12_ERROR_ADAPTER_NOT_FOUND; REGDB_E_CLASSNOTREG, 0xFFFFFFFF
HResults ==
    {0, 1, 142213121, -2147467259, -2147024809, -2147024882, -2005270523, -2005139455,
     -2005008383, -2147221164, -1}

NextDX ==
    \/ \E hr \in HResults, d3d12 \in BOOLEAN : CreateSampler(hr, d3d12)
    \/ \E hr \in HResults, d3d12 \in BOOLEAN : GetDisplayModeList(hr, d3d12)

SpecDX == Init /\ [][NextDX]_vars

(***************************************************************************)
(* Debug layer: the eight draw calls, for vertex counts V, instance counts *)
(* I and instance offsets O.                                               *)
(***************************************************************************)
AnyDraw(V, I, O, w) ==
    \/ \E n \in V : CallDraw(n, 0, w)
    \/ \E n \in V : CallDrawIndexed(n, 0, w)
    \/ \E n \in V : CallDrawIndexedOffset(n, 0, 0, w)
    \/ \E n \in V, numInstances \in I : CallDrawInstanced(n, 0, numInstances, w)
    \/ \E n \in V, numInstances \in I, instanceOffset \in O :
           CallDrawInstancedOffset(n, 0, numInstances, instanceOffset, w)
    \/ \E n \in V, numInstances \in I : CallDrawIndexedInstanced(n, numInstances, 0, w)
    \/ \E n \in V, numInstances \in I :
           CallDrawIndexedInstancedOffset(n, numInstances, 0, 0, w)
    \/ \E n \in V, numInstances \in I, instanceOffset \in O :
           CallDrawIndexedInstancedOffsets(n, numInstances, 0, 0, instanceOffset, w)

\* the capability descriptors a render system hands to the decorator
DbgCaps ==
    {[hasInstancing |-> b, maxNumComputeShaderWorkGroups |-> <<1, 1, 1>>] : b \in BOOLEAN}

(***************************************************************************)
(* Debug layer: pipelines, buffers, stream output, draws and dispatches    *)
(* in any order; the log keeps the latest call.                            *)
(***************************************************************************)
NextDbg ==
    \/ \E caps \in DbgCaps : NewDbgCommandBuffer(caps)
    \/ \E graphicsPipeline \in {1, 3} : CallSetGraphicsPipeline(graphicsPipeline, 1)
    \/ CallSetComputePipeline(1, 1)
    \/ \E buffer \in {1, 3} : CallSetVertexBuffer(buffer, 1)
    \/ CallSetIndexBuffer(3, 1)
    \/ CallBeginStreamOutput("Triangles", 1)
    \/ CallEndStreamOutput(1)
    \/ AnyDraw({3}, 1..MaxInstances, {0, 1}, 1)
    \/ \E groupSizeX \in 1..2 : CallDispatch(groupSizeX, 1, 1, 1)

SpecDbg == Init /\ [][NextDbg]_vars

(***************************************************************************)
(* Debug layer: draws of 0 to MaxVertices vertices under every topology,   *)
(* with and without vertex and index buffers; the log keeps the latest     *)
(* call.                                                                   *)
(***************************************************************************)
NextDbgDraw ==
    \/ \E graphicsPipeline \in 1..3 : CallSetGraphicsPipeline(graphicsPipeline, 1)
    \/ \E buffer \in {1, 2} : CallSetVertexBuffer(buffer, 1)
    \/ CallSetVertexBufferArray(<<1, 2>>, 1)
    \/ CallSetIndexBuffer(3, 1)
    \/ AnyDraw(0..MaxVertices, {1}, {0}, 1)

SpecDbgDraw == Init /\ [][NextDbgDraw]_vars

(***************************************************************************)
(* Debug layer: the calls of the render loop of the test, and calls that   *)
(* violate a rule, in any order; the log keeps every call.                 *)
(***************************************************************************)
NextDbgTrace ==
    /\ Len(dbgLog) < MaxDbgTrace
    /\ \/ CallSetGraphicsPipeline(2, -1)
       \/ CallSetVertexBuffer(1, -1)
       \/ CallSetVertexBufferArray(<<1, 2>>, -1)
       \/ \E shaderStageFlags \in {AllStages, {"GeometryStage"}} :
              CallSetTexture(1, 0, shaderStageFlags, -1)
       \/ AnyDraw({4}, {1}, {0}, -1)
       \/ CallPassThrough("SetViewport", <<0, 0, 4, 2>>, -1)

SpecDbgTrace == Init /\ [][NextDbgTrace]_vars

(***************************************************************************)
(* Further caches are constructed while the client works on the first one  *)
(* with every kind of operation; the call counter is off.                  *)
(***************************************************************************)
NextActive ==
    \/ NewGLStateManager
    \/ CallReset(0)
    \/ \E value \in BOOLEAN : CallSet("BLEND", value, 0)
    \/ valueStack = <<>> /\ CallPushState("BLEND", 0)
    \/ valueStack # <<>> /\ CallPopState(0)
    \/ \E contextHeight \in {0, 1} : CallMakeCurrentInfo(contextHeight, 0)
    \/ \E buffer \in FewBuffers : CallBindBuffer("ARRAY_BUFFER", buffer, 0)
    \/ \E buffer \in FewBuffers : CallBindBufferBase("ARRAY_BUFFER", 0, buffer, 0)
    \/ \E buffer \in FewBuffers : CallForcedBindBuffer("ARRAY_BUFFER", buffer, 0)
    \/ \E buffer \in FewBuffers : CallBindVertexArray(buffer, 0)
    \/ boundBufferStack = <<>> /\ CallPushBoundBuffer("ARRAY_BUFFER", 0)
    \/ boundBufferStack # <<>> /\ CallPopBoundBuffer(0)
    \/ \E layer \in {0, 1} : CallActiveTexture(layer, 0)
    \/ \E texture \in {0, 1} : CallBindTexture("TEXTURE_2D", texture, 0)
    \/ \E texture \in {0, 1} : CallForcedBindTexture("TEXTURE_2D", texture, 0)
    \/ boundTextureStack = <<>> /\ CallPushBoundTexture(0, "TEXTURE_2D", 0)
    \/ boundTextureStack # <<>> /\ CallPopBoundTexture(0)
    \/ \E program \in {0, 1} : CallBindShaderProgram(program, 0)

SpecActive == Init /\ [][NextActive]_vars

(***************************************************************************)
(* Buffer bindings with save and restore and without BindVertexArray; the  *)
(* call counter follows one call.                                          *)
(***************************************************************************)
NextBufMirror ==
    \/ \E target \in FewTargets, buffer \in FewBuffers : CallBindBuffer(target, buffer, 1)
    \/ \E target \in FewTargets, buffer \in FewBuffers :
           CallForcedBindBuffer(target, buffer, 1)
    \/ \E target \in FewTargets, index \in Indices, buffer \in FewBuffers :
           CallBindBufferBase(target, index, buffer, 1)
    \/ \E target \in FewTargets :
           Len(boundBufferStack) < MaxNest /\ CallPushBoundBuffer(target, 1)
    \/ Len(boundBufferStack) > 0 /\ CallPopBoundBuffer(1)

SpecBufMirror == Init /\ [][NextBufMirror]_vars

(***************************************************************************)
(* Texture bindings of both targets in the layers, checked and forced,     *)
(* with save and restore of TEXTURE_2D; the call counter is off.           *)
(***************************************************************************)
FewTextures == {0, 1}

NextTexMirror ==
    \/ \E layer \in Layers : CallActiveTexture(layer, 0)
    \/ \E target \in GLTextureTarget, texture \in FewTextures :
           CallBindTexture(target, texture, 0)
    \/ \E target \in GLTextureTarget, texture \in FewTextures :
           CallForcedBindTexture(target, texture, 0)
    \/ \E layer \in Layers :
           Len(boundTextureStack) < MaxTextureStack
               /\ CallPushBoundTexture(layer, "TEXTURE_2D", 0)
    \/ Len(boundTextureStack) > 0 /\ CallPopBoundTexture(0)

SpecTexMirror == Init /\ [][NextTexMirror]_vars

(***************************************************************************)
(* A client that saves capabilities, resets the cache and restores them,   *)
(* with a buffer and a texture bound at some point; every call since       *)
(* construction is counted, up to MaxTrace calls.                          *)
(***************************************************************************)
NextResetTrace ==
    /\ Len(run.args) < MaxTrace
    /\ \/ CallReset(-1)
       \/ \E value \in BOOLEAN : CallSet("BLEND", value, -1)
       \/ \E state \in GLState :
              Len(valueStack) < MaxValueStack /\ CallPushState(state, -1)
       \/ Len(valueStack) > 0 /\ CallPopState(-1)
       \/ CallBindBuffer("ARRAY_BUFFER", 1, -1)
       \/ CallBindTexture("TEXTURE_2D", 1, -1)

SpecResetTrace == Init /\ [][NextResetTrace]_vars

(***************************************************************************)
(* A client that keeps one vector of viewports and one of scissors and     *)
(* passes the same vector again, as the previous call left it, in a small  *)
(* or a tall context; the call counter follows a call and the call after   *)
(* it.                                                                     *)
(***************************************************************************)
FlipHeights == {1, TallHeight}

\* the viewports of the other specification, and 1 x 1 at (0, 1 - 2^-GLfloatFraction)
FlipViewports ==
    Viewports
    \cup {[x |-> 0, y |-> GLfloatOne - 1, width |-> GLfloatOne, height |-> GLfloatOne]}

\* the vectors of no, one or two elements of S
FlipLists(S) == UNION {[1..n -> S] : n \in 0..2}

NextFlip ==
    \/ \E contextHeight \in FlipHeights : CallMakeCurrentInfo(contextHeight, 2)
    \/ \E origin \in {"GL_LOWER_LEFT", "GL_UPPER_LEFT"} :
           CallSetClipControl(origin, "GL_NEGATIVE_ONE_TO_ONE", 2)
    \/ \E proc \in {"glViewportArrayv", "glScissorArrayv"} : LoadGLProc(proc)
    \/ \E viewports \in FlipLists(FlipViewports) : CallSetViewports(viewports, 2)
    \/ \E scissors \in FlipLists(Scissors) : CallSetScissors(scissors, 2)
    \/ run.op = "SetViewports" /\ CallSetViewports(run.vector[Len(run.vector)], 2)
    \/ run.op = "SetScissors" /\ CallSetScissors(run.vector[Len(run.vector)], 2)

SpecFlip == Init /\ [][NextFlip]_vars

(***************************************************************************)
(* The scalar common states, each setter with two values; the call counter *)
(* follows the runs of calls of one setter.                                *)
(***************************************************************************)
DepthFuncs == {"GL_LESS", "GL_LEQUAL"}

PolygonModes == {"GL_FILL", "GL_LINE"}

CullFaces == {"GL_BACK", "GL_FRONT"}

FrontFaces == {"GL_CCW", "GL_CW"}

GLbooleans == {0, 1}

NextCommon ==
    \/ \E func \in DepthFuncs : CallSetDepthFunc(func, MaxRun)
    \/ \E mode \in PolygonModes : CallSetPolygonMode(mode, MaxRun)
    \/ \E face \in CullFaces : CallSetCullFace(face, MaxRun)
    \/ \E mode \in FrontFaces : CallSetFrontFace(mode, MaxRun)
    \/ \E flag \in GLbooleans : CallSetDepthMask(flag, MaxRun)

SpecCommon == Init /\ [][NextCommon]_vars

(***************************************************************************)
(* Binding texture objects: 2D and 3D textures and a multi-sampled 2D      *)
(* texture, for which GetTextureTarget has no case, on two layers, with    *)
(* one binding saved and restored in between; the call counter follows     *)
(* one call.                                                               *)
(***************************************************************************)
TextureTypes == {"Texture2D", "Texture3D", "Texture2DMS"}

\* GLTexture objects: GetType() and GetID()
GLTextures == [type : TextureTypes, id : FewTextures]

NextTexObject ==
    \/ \E layer \in {0, 1} : CallActiveTexture(layer, 1)
    \/ \E texture \in GLTextures : CallBindTextureGLTexture(texture, 1)
    \/ \E texture \in GLTextures : CallForcedBindTextureGLTexture(texture, 1)
    \/ \E layer \in {0, 1} :
           boundTextureStack = <<>> /\ CallPushBoundTexture(layer, "TEXTURE_2D", 1)
    \/ boundTextureStack # <<>> /\ CallPopBoundTexture(1)
    \/ CallBindBuffer("ARRAY_BUFFER", 1, 1)

SpecTexObject == Init /\ [][NextTexObject]_vars

(***************************************************************************)
(* Reading the call counter.                                               *)
(***************************************************************************)
LastOf(seq) == seq[Len(seq)]

RECURSIVE Flatten(_)
Flatten(seqs) == IF seqs = <<>> THEN <<>> ELSE Head(seqs) \o Flatten(Tail(seqs))

MinOf(S) == CHOOSE x \in S : \A y \in S : x <= y

CapCall(state, value) ==
    GLCall(IF value THEN "glEnable" ELSE "glDisable", stateCapsMap(state), 0, 0)

(***************************************************************************)
(* C1.  Set / Enable / Disable issue a native enable/disable call if and   *)
(* only if the mirror of the capability differs from the requested value;  *)
(* then exactly one call is issued and the mirror (and the driver) take    *)
(* the requested value; otherwise mirror and driver are left untouched.    *)
(***************************************************************************)
C1_Step ==
    (run'.op \in {"Set", "Enable", "Disable"} /\ status' = "ok") =>
        LET c == run'.slot
            b == LastOf(run'.args)
            k == LastOf(run'.calls)
        IN  /\ (k # <<>>) <=> (values[c] # b)
            /\ k # <<>> => /\ k = <<CapCall(c, b)>>
                           /\ values' = [values EXCEPT ![c] = b]
                           /\ glEnabled' = [glEnabled EXCEPT ![stateCapsMap(c)] = b]
            /\ k = <<>> => /\ values' = values
                           /\ glEnabled' = glEnabled
            /\ UNCHANGED <<valueStack, boundBuffers, boundBufferStack>>

C1_SetIffMirrorDiffers == [][C1_Step]_vars

\* Disable was called twice in a row: the first call reached the driver, the second did not
C1_Witness ==
    /\ run.op = "Disable"
    /\ Len(run.args) = 2
    /\ run.calls = << <<CapCall(run.slot, FALSE)>>, <<>> >>

(***************************************************************************)
(* C2.  As claimed: Set(C, b) called twice in a row issues the native      *)
(* transition exactly once in total.                                       *)
(***************************************************************************)
C2_TwiceIssuesExactlyOnce ==
    run.op = "Set" =>
        \A i \in 1..(Len(run.args) - 1) :
            run.args[i] = run.args[i + 1] =>
                Len(run.calls[i]) + Len(run.calls[i + 1]) = 1

(***************************************************************************)
(* C2, amended.  Set(C, b) called twice in a row issues the native         *)
(* transition at most once in total: once, by the first call, when the     *)
(* mirror of C differed from b before the first call, and not at all when  *)
(* the mirror already held b.  The second call never issues it.            *)
(***************************************************************************)
C2_TwiceIssuesAtMostOnce ==
    run.op = "Set" =>
        \A i \in 1..(Len(run.args) - 1) :
            run.args[i] = run.args[i + 1] =>
                /\ run.calls[i + 1] = <<>>
                /\ run.calls[i] = IF run.pre[i] # run.args[i]
                                  THEN <<CapCall(run.slot, run.args[i])>>
                                  ELSE <<>>

\* Set(C, b) twice in a row where the mirror differed from b: one native call in total
C2_Witness ==
    /\ run.op = "Set"
    /\ Len(run.args) = 2
    /\ run.args[1] = run.args[2]
    /\ run.pre[1] # run.args[1]
    /\ Len(run.calls[1]) + Len(run.calls[2]) = 1

(***************************************************************************)
(* C3.  As claimed: in every reachable state, also right after             *)
(* construction and before any Reset, the mirrored boolean of each         *)
(* capability equals the driver's enabled state of that capability.        *)
(***************************************************************************)
C3_MirrorEqualsDriver ==
    status = "ok" => \A c \in GLState : values[c] = glEnabled[stateCapsMap(c)]

(***************************************************************************)
(* C4.  PushState(C) records the current mirrored value of C and issues no *)
(* native call; PopState re-applies the top entry through Set: it issues a *)
(* native call if and only if the saved value differs from the mirror at   *)
(* pop time; PushState(C) immediately followed by PopState issues no       *)
(* native call.                                                            *)
(***************************************************************************)
C4_Push ==
    run'.op = "PushState" =>
        /\ LastOf(run'.calls) = <<>>
        /\ valueStack' = Append(valueStack, [state |-> run'.slot, enabled |-> values[run'.slot]])
        /\ UNCHANGED <<values, glEnabled>>

C4_Pop ==
    (run'.op = "PopState" /\ valueStack # <<>>) =>
        LET e == Top(valueStack)
            k == LastOf(run'.calls)
        IN  /\ status' = "ok"
            /\ (k # <<>>) <=> (e.enabled # values[e.state])
            /\ k # <<>> => k = <<CapCall(e.state, e.enabled)>>
            /\ values' = [values EXCEPT ![e.state] = e.enabled]
            /\ valueStack' = Pop(valueStack)

C4_PushThenPop ==
    (run.op = "PushState" /\ run'.op = "PopState") =>
        /\ LastOf(run'.calls) = <<>>
        /\ UNCHANGED <<values, glEnabled>>
        /\ valueStack' = Pop(valueStack)

C4_PushRecordsPopReapplies == [][C4_Push /\ C4_Pop /\ C4_PushThenPop]_vars

\* a PopState whose saved value differed from the mirror: it reached the driver
C4_Witness ==
    /\ run.op = "PopState"
    /\ status = "ok"
    /\ LastOf(run.calls) # <<>>
    /\ valueStack # <<>>

(***************************************************************************)
(* C6.  PopStates(n), n not larger than the depth, removes exactly the n   *)
(* most recently pushed entries in LIFO order and restores each of them,   *)
(* whatever capabilities they name: the mirror of a capability ends as the *)
(* value saved in the deepest removed entry that names it.  n consecutive  *)
(* PopState calls end in the state, and issue the native calls, that       *)
(* PopStates(n) gives from the same start.  PopStates(0) changes nothing.  *)
(***************************************************************************)
C6_PopStatesStep ==
    (run'.op = "PopStates" /\ LastOf(run'.args) <= Len(valueStack)) =>
        LET n == LastOf(run'.args)
            d == Len(valueStack)
        IN  /\ status' = "ok"
            /\ valueStack' = SubSeq(valueStack, 1, d - n)
            /\ \A c \in GLState :
                   LET I == {i \in (d - n + 1)..d : valueStack[i].state = c}
                   IN  values'[c] = IF I = {} THEN values[c]
                                    ELSE valueStack[MinOf(I)].enabled
            /\ Len(LastOf(run'.calls)) <= n
            /\ n = 0 => /\ UNCHANGED <<values, glEnabled>>
                        /\ LastOf(run'.calls) = <<>>

C6_PopStateRun ==
    (run.op = "PopState" /\ status = "ok") =>
        \A i \in 1..Len(run.pre) :
            LET r == PopStates(run.pre[i], Len(run.pre) - i + 1)
            IN  /\ ~r.ub
                /\ r.values = values
                /\ r.valueStack = valueStack
                /\ r.glEnabled = glEnabled
                /\ r.calls = Flatten(SubSeq(run.calls, i, Len(run.calls)))

C6_PopStatesIsNPopState == [][C6_PopStatesStep /\ C6_PopStateRun']_vars

\* PopStates(2) removed two entries and both restores reached the driver
C6_Witness ==
    /\ run.op = "PopStates"
    /\ status = "ok"
    /\ LastOf(run.args) = 2
    /\ Len(LastOf(run.calls)) = 2

\* two consecutive PopState calls, both of which reached the driver
C6_WitnessRun ==
    /\ run.op = "PopState"
    /\ status = "ok"
    /\ Len(run.args) = 2
    /\ Len(Flatten(run.calls)) = 2

(***************************************************************************)
(* C5.  Push/Pop symmetry.  In any balanced sequence of pushes, mutations  *)
(* and pops, nested and on different capabilities and targets, the         *)
(* mirrored value of a capability (of a buffer target) right after the pop *)
(* that matches a push is its mirrored value right before that push.       *)
(* capShadow / bufShadow hold, per open push, the slot named by the call   *)
(* and its mirrored value right before the push.  When one step pops       *)
(* several entries (PopStates), the entry popped last for a slot decides.  *)
(***************************************************************************)
C5_CapStep ==
    (Len(capShadow') < Len(capShadow) /\ status' = "ok") =>
        \A i \in (Len(capShadow') + 1)..Len(capShadow) :
            (\A j \in (Len(capShadow') + 1)..(i - 1) : capShadow[j].state # capShadow[i].state)
                => values'[capShadow[i].state] = capShadow[i].enabled

C5_BufStep ==
    (Len(bufShadow') < Len(bufShadow) /\ status' = "ok") =>
        \A i \in (Len(bufShadow') + 1)..Len(bufShadow) :
            (\A j \in (Len(bufShadow') + 1)..(i - 1) : bufShadow[j].target # bufShadow[i].target)
                => boundBuffers'[bufShadow[i].target] = bufShadow[i].buffer

C5_OpenPushes ==
    /\ Len(capShadow) = Len(valueStack)
    /\ Len(bufShadow) = Len(boundBufferStack)

C5_PushPopSymmetry == [][C5_CapStep /\ C5_BufStep /\ C5_OpenPushes']_vars

\* a PopState restored a capability that was changed after its push, while a
\* buffer push is still open and the buffer it saved has been rebound
C5_Witness ==
    /\ run.op = "PopState"
    /\ status = "ok"
    /\ LET p == run.pre[1]
           e == Top(p.valueStack)
       IN  /\ p.values[e.state] # e.enabled
           /\ values[e.state] = e.enabled
    /\ bufShadow # <<>>
    /\ boundBuffers[Top(bufShadow).target] # Top(bufShadow).buffer

(***************************************************************************)
(* C7.  As claimed: BindBuffer with the same (target, handle) N times in a *)
(* row (N >= 1) issues the native bind exactly once, and binding N         *)
(* pairwise different handles in a row to one target issues it exactly N   *)
(* times.  Every part i..j of a run of BindBuffer calls on one target is   *)
(* such a sequence, started in a reachable state.                          *)
(***************************************************************************)
AllSame(i, j) == \A k \in i..j : run.args[k] = run.args[i]

PairwiseDifferent(i, j) == \A k, l \in i..j : k # l => run.args[k] # run.args[l]

Issued(i, j) == Flatten(SubSeq(run.calls, i, j))

BindCall(target, buffer) == GLCall("glBindBuffer", bufferTargetsMap(target), 0, buffer)

C7_ExactlyOnceAndExactlyN ==
    run.op = "BindBuffer" =>
        \A i, j \in 1..Len(run.args) :
            i <= j =>
                /\ AllSame(i, j) => Len(Issued(i, j)) = 1
                /\ PairwiseDifferent(i, j) => Len(Issued(i, j)) = j - i + 1

(***************************************************************************)
(* C7, amended.  BindBuffer with the same (target, handle) N times in a    *)
(* row issues the native bind at most once: once, by the first call, when  *)
(* the mirrored binding of the target differed from the handle before the  *)
(* first call, and not at all otherwise.  Binding N pairwise different     *)
(* handles in a row to one target issues it N times when the first handle  *)
(* differs from the binding mirrored before the first call, and N - 1      *)
(* times (all but the first call) otherwise.                               *)
(***************************************************************************)
C7_RedundantBindsEliminated ==
    run.op = "BindBuffer" =>
        \A i, j \in 1..Len(run.args) :
            i <= j =>
                LET first == IF run.pre[i] # run.args[i]
                             THEN <<BindCall(run.slot, run.args[i])>> ELSE <<>>
                IN  /\ AllSame(i, j) => Issued(i, j) = first
                    /\ PairwiseDifferent(i, j) =>
                           Issued(i, j) = first \o [k \in 1..(j - i) |->
                                                       BindCall(run.slot, run.args[i + k])]

\* the same pair bound twice in a row, the mirror holding another handle before: one bind
C7_Witness ==
    /\ run.op = "BindBuffer"
    /\ Len(run.args) = 2
    /\ run.args[1] = run.args[2]
    /\ run.pre[1] # run.args[1]
    /\ Len(Issued(1, 2)) = 1

(***************************************************************************)
(* C8.  BindBufferBase, BindVertexArray, ForcedBindBuffer and              *)
(* ForcedBindTexture are unconditional: each call issues exactly one       *)
(* native bind call, also when the mirror already holds the handle, and    *)
(* BindBufferBase / ForcedBindBuffer / ForcedBindTexture leave the         *)
(* mirrored slot of their target (for a texture: in the active layer)      *)
(* holding the given handle.                                               *)
(***************************************************************************)
C8_UnconditionalBinds ==
    LET a == LastOf(run.args)
        k == LastOf(run.calls)
    IN  /\ run.op = "BindBufferBase" =>
               /\ \E index \in Indices :
                      k = <<GLCall("glBindBufferBase", bufferTargetsMap(run.slot), index, a)>>
               /\ boundBuffers[run.slot] = a
        /\ run.op = "BindVertexArray" => k = <<GLCall("glBindVertexArray", "-", 0, a)>>
        /\ run.op = "ForcedBindBuffer" =>
               /\ k = <<BindCall(run.slot, a)>>
               /\ boundBuffers[run.slot] = a
        /\ run.op = "ForcedBindTexture" =>
               /\ k = <<GLCall("glBindTexture", textureTargetsMap(run.slot), 0, a)>>
               /\ layers[activeTextureLayer][run.slot] = a

\* ForcedBindBuffer of the handle the mirror already held, which reached the driver,
\* while layer 1 is active and holds a texture bound by ForcedBindTexture
C8_Witness ==
    /\ run.op = "ForcedBindBuffer"
    /\ LastOf(run.pre) = LastOf(run.args)
    /\ LastOf(run.args) # 0
    /\ Len(LastOf(run.calls)) = 1
    /\ activeTextureLayer = 1
    /\ layers[1]["TEXTURE_2D"] # 0

(***************************************************************************)
(* C9.  As claimed: BindBufferBase and BindVertexArray leave the mirrored  *)
(* ARRAY_BUFFER and ELEMENT_ARRAY_BUFFER slots at zero, so that the next   *)
(* BindBuffer of a non-zero handle to either target issues a native bind.  *)
(***************************************************************************)
ArraySlots == {"ARRAY_BUFFER", "ELEMENT_ARRAY_BUFFER"}

C9_ZeroAfter(ops) ==
    /\ run'.op \in ops => \A t \in ArraySlots : boundBuffers'[t] = 0
    /\ (/\ run.op \in ops
        /\ run'.op = "BindBuffer"
        /\ run'.slot \in ArraySlots
        /\ LastOf(run'.args) # 0)
           => LastOf(run'.calls) = <<BindCall(run'.slot, LastOf(run'.args))>>

C9_BothZeroArraySlots == [][C9_ZeroAfter({"BindBufferBase", "BindVertexArray"})]_vars

(***************************************************************************)
(* C9, amended.  Switching the vertex-array object (BindVertexArray)       *)
(* leaves the mirrored ARRAY_BUFFER and ELEMENT_ARRAY_BUFFER slots at zero *)
(* and every other slot as it was, so that the next BindBuffer of a        *)
(* non-zero handle to either of the two targets issues a native bind.      *)
(* Binding with an indexed base (BindBufferBase) does not zero them: it    *)
(* writes the slot of its own target and no other.                         *)
(***************************************************************************)
C9_BaseWritesOwnSlot ==
    run.op = "BindBufferBase" =>
        boundBuffers = [LastOf(run.pre) EXCEPT ![run.slot] = LastOf(run.args)]

C9_ArrayKeepsOthers ==
    run.op = "BindVertexArray" =>
        \A t \in GLBufferTarget \ ArraySlots : boundBuffers[t] = LastOf(run.pre)[t]

C9_OnlyVertexArrayZeroes ==
    [][C9_ZeroAfter({"BindVertexArray"}) /\ C9_BaseWritesOwnSlot' /\ C9_ArrayKeepsOthers']_vars

\* BindVertexArray zeroed both array slots, which held buffers, and kept the uniform buffer
C9_Witness ==
    /\ run.op = "BindVertexArray"
    /\ \A t \in ArraySlots : LastOf(run.pre)[t] # 0 /\ boundBuffers[t] = 0
    /\ boundBuffers["UNIFORM_BUFFER"] # 0

(***************************************************************************)
(* C10.  PushBoundBuffer(target) records the mirrored handle of the        *)
(* target; PopBoundBuffer restores the most recently pushed (target,       *)
(* handle) entry through BindBuffer: it issues a native bind if and only   *)
(* if the saved handle differs from the mirror at pop time, and it leaves  *)
(* the slot of every other target unchanged.                               *)
(***************************************************************************)
C10_Push ==
    Len(boundBufferStack') > Len(boundBufferStack) =>
        LET target == Top(bufShadow').target
        IN  /\ boundBufferStack' =
                   Append(boundBufferStack, [target |-> target, buffer |-> boundBuffers[target]])
            /\ bufShadow' = Append(bufShadow, [target |-> target, buffer |-> boundBuffers[target]])
            /\ UNCHANGED boundBuffers

C10_Pop ==
    run'.op = "PopBoundBuffer" =>
        LET e == Top(bufShadow)
            k == LastOf(run'.calls)
        IN  /\ status' = "ok"
            /\ (k # <<>>) <=> (e.buffer # boundBuffers[e.target])
            /\ k # <<>> => k = <<BindCall(e.target, e.buffer)>>
            /\ boundBuffers' = [boundBuffers EXCEPT ![e.target] = e.buffer]
            /\ boundBufferStack' = Pop(boundBufferStack)
            /\ bufShadow' = Pop(bufShadow)

C10_PushRecordsPopRebinds == [][C10_Push /\ C10_Pop]_vars

\* PopBoundBuffer re-bound the saved array buffer after the slot had been zeroed
C10_Witness ==
    /\ run.op = "PopBoundBuffer"
    /\ status = "ok"
    /\ LET p == run.pre[1]
           e == Top(p.boundBufferStack)
       IN  /\ e.target = "ARRAY_BUFFER"
           /\ e.buffer # 0
           /\ p.boundBuffers["ARRAY_BUFFER"] = 0
           /\ LastOf(run.calls) = <<BindCall("ARRAY_BUFFER", e.buffer)>>
           /\ boundBuffers["ARRAY_BUFFER"] = e.buffer

(***************************************************************************)
(* C11.  ActiveTexture(layer) issues a native call and changes the active  *)
(* layer only when the layer differs from the active one (and then it      *)
(* issues exactly one call and the layer becomes the active one);          *)
(* BindTexture(target, handle) issues a native bind only when the slot of  *)
(* the target in the active layer does not already hold the handle, and it *)
(* writes the slot of that target in the active layer and no other slot.   *)
(***************************************************************************)
TexCall(target, texture) == GLCall("glBindTexture", textureTargetsMap(target), 0, texture)

C11_ActiveTextureStep ==
    run'.op = "ActiveTexture" =>
        LET layer == LastOf(run'.args)
            k == LastOf(run'.calls)
        IN  /\ (k # <<>>) <=> (activeTexture # layer)
            /\ k # <<>> => k = <<GLCall("glActiveTexture", "GL_TEXTURE0", layer, 0)>>
            /\ activeTexture # layer => activeTexture' = layer /\ activeTextureLayer' = layer
            /\ activeTexture = layer => UNCHANGED <<activeTexture, activeTextureLayer>>
            /\ UNCHANGED layers

C11_BindTextureStep ==
    run'.op = "BindTexture" =>
        LET target == run'.slot
            texture == LastOf(run'.args)
            k == LastOf(run'.calls)
        IN  /\ (k # <<>>) <=> (layers[activeTexture][target] # texture)
            /\ k # <<>> => k = <<TexCall(target, texture)>>
            /\ layers' = [layers EXCEPT ![activeTexture][target] = texture]
            /\ UNCHANGED <<activeTexture, activeTextureLayer>>

C11_TextureRedundancyChecked == [][C11_ActiveTextureStep /\ C11_BindTextureStep]_vars

\* BindTexture of the handle that layer 1, the active one, already held: no native bind
C11_Witness ==
    /\ run.op = "BindTexture"
    /\ activeTexture = 1
    /\ LastOf(run.args) # 0
    /\ LastOf(run.pre) = LastOf(run.args)
    /\ LastOf(run.calls) = <<>>
    /\ layers[0][run.slot] # LastOf(run.args)

(***************************************************************************)
(* C12.  Texture-layer isolation.  No BindTexture or ForcedBindTexture     *)
(* performed while a layer other than L is active changes a slot of layer  *)
(* L, and switching the active layer changes no slot.  So after binding H  *)
(* to T in layer L, switching to another layer, binding a different handle *)
(* to T there and switching back to L, the mirrored binding of (L, T) is   *)
(* still H.                                                                *)
(***************************************************************************)
C12_BindStep ==
    run'.op \in {"BindTexture", "ForcedBindTexture"} =>
        \A L \in DOMAIN layers : L # activeTexture => layers'[L] = layers[L]

C12_SwitchStep ==
    run'.op = "ActiveTexture" => layers' = layers

C12_LayerIsolation == [][C12_BindStep /\ C12_SwitchStep]_vars

\* back in layer 0 after binding in layer 1: layer 0 still holds its handle for
\* TEXTURE_2D, layer 1 holds a different one
C12_Witness ==
    /\ run.op = "ActiveTexture"
    /\ LastOf(run.pre) = 1
    /\ activeTexture = 0
    /\ layers[0]["TEXTURE_2D"] = 1
    /\ layers[1]["TEXTURE_2D"] = 0
    /\ layers[1]["TEXTURE_3D"] = 1

(***************************************************************************)
(* C13.  PushBoundTexture(layer, target) records the mirrored handle of    *)
(* the slot (layer, target), whichever layer is active, and leaves the     *)
(* active layer as it is.  PopBoundTexture makes the saved layer the       *)
(* active one and restores the saved handle in the slot of that layer:     *)
(* after the pop the active layer is the saved one, not the one that was   *)
(* active before the pop, and the slots of the other layers are unchanged. *)
(***************************************************************************)
C13_Push ==
    run'.op = "PushBoundTexture" =>
        LET layer == LastOf(run'.args)
            target == run'.slot
        IN  /\ boundTextureStack' =
                   Append(boundTextureStack,
                          [layer |-> layer, target |-> target,
                           texture |-> layers[layer][target]])
            /\ LastOf(run'.calls) = <<>>
            /\ UNCHANGED <<layers, activeTexture, activeTextureLayer>>

C13_Pop ==
    run'.op = "PopBoundTexture" =>
        LET e == Top(boundTextureStack)
        IN  /\ status' = "ok"
            /\ activeTexture' = e.layer
            /\ activeTextureLayer' = e.layer
            /\ layers' = [layers EXCEPT ![e.layer][e.target] = e.texture]
            /\ boundTextureStack' = Pop(boundTextureStack)

C13_PopActivatesSavedLayer == [][C13_Push /\ C13_Pop]_vars

\* a pop whose entry was saved for a layer other than the active one, after the
\* slot had been rebound: the saved layer became active and got its handle back
C13_Witness ==
    /\ run.op = "PopBoundTexture"
    /\ status = "ok"
    /\ LET p == run.pre[1]
           e == Top(p.boundTextureStack)
       IN  /\ p.activeTexture # e.layer
           /\ p.layers[e.layer][e.target] # e.texture
           /\ activeTexture = e.layer
           /\ layers[e.layer][e.target] = e.texture
           /\ layers[p.activeTexture] = p.layers[p.activeTexture]

(***************************************************************************)
(* C14.  End-to-end texture scenario.  On a fresh cache the sequence       *)
(* ActiveTexture(2); BindTexture(TEXTURE_2D, 7); PushBoundTexture(2,       *)
(* TEXTURE_2D); BindTexture(TEXTURE_2D, 9); PopBoundTexture() ends with    *)
(* the mirrored handle of (layer 2, TEXTURE_2D) equal to 7, and exactly 3  *)
(* native texture-bind calls were issued, in the order 7, 9, 7 (after the  *)
(* one native call that activated layer 2).                                *)
(***************************************************************************)
C14_Scenario ==
    << [op |-> "ActiveTexture", slot |-> "-", arg |-> 2],
       [op |-> "BindTexture", slot |-> "TEXTURE_2D", arg |-> 7],
       [op |-> "PushBoundTexture", slot |-> "TEXTURE_2D", arg |-> 2],
       [op |-> "BindTexture", slot |-> "TEXTURE_2D", arg |-> 9],
       [op |-> "PopBoundTexture", slot |-> "-", arg |-> 0] >>

IsTextureBind(c) == c.fn = "glBindTexture"

C14_EndToEnd ==
    (run.op = "all" /\ run.args = C14_Scenario) =>
        /\ status = "ok"
        /\ layers[2]["TEXTURE_2D"] = 7
        /\ SelectSeq(Flatten(run.calls), IsTextureBind) =
               <<TexCall("TEXTURE_2D", 7), TexCall("TEXTURE_2D", 9), TexCall("TEXTURE_2D", 7)>>
        /\ Flatten(run.calls) =
               <<GLCall("glActiveTexture", "GL_TEXTURE0", 2, 0)>>
                   \o SelectSeq(Flatten(run.calls), IsTextureBind)
        /\ boundTextureStack = <<>>

\* the five calls of the scenario were made on the fresh cache, and the pop bound 7 again
C14_Witness ==
    /\ run.op = "all"
    /\ run.args = C14_Scenario
    /\ run.calls[5] = <<TexCall("TEXTURE_2D", 7)>>
    /\ layers[2]["TEXTURE_2D"] = 7

(***************************************************************************)
(* C15.  BindShaderProgram(handle) issues the native use-program call only *)
(* when the handle differs from the mirrored program.  PushShaderProgram / *)
(* PopShaderProgram save and restore in LIFO order: after the pop that     *)
(* matches a push the mirrored program is the program that was bound at    *)
(* the time of that push (progShadow holds it per open push), the pop      *)
(* issuing the native call only when that program differs from the mirror; *)
(* a push immediately followed by a pop issues no native call.             *)
(***************************************************************************)
UseCall(program) == GLCall("glUseProgram", "-", 0, program)

C15_Bind ==
    run'.op = "BindShaderProgram" =>
        LET program == LastOf(run'.args)
            k == LastOf(run'.calls)
        IN  /\ (k # <<>>) <=> (boundProgram # program)
            /\ k # <<>> => k = <<UseCall(program)>>
            /\ boundProgram' = program
            /\ UNCHANGED <<boundProgramStack, progShadow>>

C15_Push ==
    run'.op = "PushShaderProgram" =>
        /\ LastOf(run'.calls) = <<>>
        /\ boundProgramStack' = Append(boundProgramStack, boundProgram)
        /\ progShadow' = Append(progShadow, boundProgram)
        /\ UNCHANGED boundProgram

C15_Pop ==
    run'.op = "PopShaderProgram" =>
        LET saved == Top(progShadow)
            k == LastOf(run'.calls)
        IN  /\ status' = "ok"
            /\ boundProgram' = saved
            /\ (k # <<>>) <=> (saved # boundProgram)
            /\ k # <<>> => k = <<UseCall(saved)>>
            /\ boundProgramStack' = Pop(boundProgramStack)
            /\ progShadow' = Pop(progShadow)

C15_PushThenPop ==
    (run.op = "PushShaderProgram" /\ run'.op = "PopShaderProgram") =>
        /\ LastOf(run'.calls) = <<>>
        /\ UNCHANGED boundProgram

C15_ShaderProgramDiscipline == [][C15_Bind /\ C15_Push /\ C15_Pop /\ C15_PushThenPop]_vars

\* the inner of two nested pops: it restored, with a native call, the program bound
\* at its push, which differs from the program the outer push saved
C15_Witness ==
    /\ run.op = "PopShaderProgram"
    /\ status = "ok"
    /\ LET p == run.pre[1]
       IN  /\ Len(p.boundProgramStack) = 2
           /\ p.boundProgram # Top(p.boundProgramStack)
           /\ boundProgram = Top(p.boundProgramStack)
           /\ LastOf(run.calls) = <<UseCall(boundProgram)>>
           /\ boundProgramStack # <<boundProgram>>

(***************************************************************************)
(* C16.  As claimed: popping an empty save/restore stack (PopState, or     *)
(* PopStates with a count above the depth, once the stack has run empty)   *)
(* ends in a fatal error state: the call does not return normally, and the *)
(* empty pop changes no mirror and issues no native call.                  *)
(***************************************************************************)
C16_PopStateStep ==
    (run'.op = "PopState" /\ valueStack = <<>>) =>
        /\ status' = "crashed"
        /\ UNCHANGED <<values, glEnabled, boundBuffers>>

C16_PopStatesStep ==
    (run'.op = "PopStates" /\ LastOf(run'.args) > Len(valueStack)) =>
        LET r == PopStates(Cur, Len(valueStack))
        IN  /\ status' = "crashed"
            /\ values' = r.values
            /\ glEnabled' = r.glEnabled
            /\ boundBuffers' = boundBuffers

C16_EmptyPopIsFatal == [][C16_PopStateStep /\ C16_PopStatesStep]_vars

(***************************************************************************)
(* C17.  Stencil sub-field independence.  SetStencilState for one face     *)
(* compares the op triplet (sfail, dpfail, dppass), the func triplet       *)
(* (func, ref, mask) and the write mask against the mirror of that face    *)
(* independently, and issues the native op / func / write-mask call for    *)
(* exactly the sub-fields that differ; changing only the write mask issues *)
(* only the write-mask call, and re-submitting the mirrored state issues   *)
(* no call.                                                                *)
(***************************************************************************)
OpTriplet(st) == <<st.sfail, st.dpfail, st.dppass>>

FuncTriplet(st) == <<st.func, st.ref, st.mask>>

\* the native calls that re-send, for one face, the sub-fields in which `from` differs
SubFieldCalls(face, to, from) ==
    (IF OpTriplet(to) # OpTriplet(from)
     THEN <<GLCall("glStencilOpSeparate", face, 0, OpTriplet(from))>> ELSE <<>>)
    \o (IF FuncTriplet(to) # FuncTriplet(from)
        THEN <<GLCall("glStencilFuncSeparate", face, 0, FuncTriplet(from))>> ELSE <<>>)
    \o (IF to.writeMask # from.writeMask
        THEN <<GLCall("glStencilMaskSeparate", face, 0, from.writeMask)>> ELSE <<>>)

FaceIndex(face) == IF face = "GL_FRONT" THEN 0 ELSE 1

C17_SubFieldsIndependent ==
    (run.op = "SetStencilState" /\ run.slot \in {"GL_FRONT", "GL_BACK"}) =>
        LET to == LastOf(run.pre)[FaceIndex(run.slot)]
            from == LastOf(run.args)
            k == LastOf(run.calls)
        IN  /\ k = SubFieldCalls(run.slot, to, from)
            /\ stencil[FaceIndex(run.slot)] = from
            /\ (OpTriplet(to) = OpTriplet(from) /\ FuncTriplet(to) = FuncTriplet(from)
                    /\ to.writeMask # from.writeMask)
                   => k = <<GLCall("glStencilMaskSeparate", run.slot, 0, from.writeMask)>>
            /\ to = from => k = <<>>

\* the back face was given a state that differs from its mirror, which was not the
\* default state, in the write mask only: one write-mask call was issued
C17_Witness ==
    /\ run.op = "SetStencilState"
    /\ run.slot = "GL_BACK"
    /\ LET to == LastOf(run.pre)[1]
           from == LastOf(run.args)
       IN  /\ to.writeMask # from.writeMask
           /\ OpTriplet(to) = OpTriplet(from)
           /\ FuncTriplet(to) = FuncTriplet(from)
           /\ LastOf(run.pre)[0] # to
           /\ LastOf(run.calls) = <<GLCall("glStencilMaskSeparate", "GL_BACK", 0, from.writeMask)>>

(***************************************************************************)
(* C18.  SetStencilState with face FRONT_AND_BACK behaves exactly like     *)
(* SetStencilState(FRONT, s) followed by SetStencilState(BACK, s): the     *)
(* front and the back mirror are compared and updated independently, so a  *)
(* sub-field is re-sent only for the face whose mirror differs.            *)
(* SetStencilState(FRONT, s) never changes the back mirror, and            *)
(* SetStencilState(BACK, s) never changes the front mirror.                *)
(***************************************************************************)
C18_FrontAndBackIsFrontThenBack ==
    run.op = "SetStencilState" =>
        LET p == LastOf(run.pre)
            s == LastOf(run.args)
            k == LastOf(run.calls)
            q == [Cur EXCEPT !.stencil = p]
            both == SetStencilState(SetStencilState(q, "GL_FRONT", s), "GL_BACK", s)
        IN  /\ run.slot = "GL_FRONT_AND_BACK" =>
                   /\ stencil = both.stencil
                   /\ k = both.calls
                   /\ k = SubFieldCalls("GL_FRONT", p[0], s) \o SubFieldCalls("GL_BACK", p[1], s)
                   /\ stencil = [i \in {0, 1} |-> s]
            /\ run.slot = "GL_FRONT" => stencil[1] = p[1]
            /\ run.slot = "GL_BACK" => stencil[0] = p[0]

\* FRONT_AND_BACK with a state the front mirror already held and the back mirror
\* did not: calls were issued, all of them for the back face
C18_Witness ==
    /\ run.op = "SetStencilState"
    /\ run.slot = "GL_FRONT_AND_BACK"
    /\ LastOf(run.pre)[0] = LastOf(run.args)
    /\ LastOf(run.pre)[1] # LastOf(run.args)
    /\ LastOf(run.calls) # <<>>
    /\ \A i \in 1..Len(LastOf(run.calls)) : LastOf(run.calls)[i].target = "GL_BACK"
    /\ stencil[1] = LastOf(run.args)

(***************************************************************************)
(* C19.  SetViewports, SetDepthRanges and SetScissors issue exactly one    *)
(* single-target native call for a list of one element, exactly one        *)
(* array-setting native call (for all the elements, from index 0) for a    *)
(* list of two or more elements when the array entry point is available,   *)
(* and no native call and no error when the list has two or more elements  *)
(* and the entry point is unavailable, or when the list is empty.          *)
(***************************************************************************)
C19_Step(op, single, array) ==
    run'.op = op =>
        LET n == Len(LastOf(run'.args))
            k == LastOf(run'.calls)
        IN  /\ status' = "ok"
            /\ n = 1 => Len(k) = 1 /\ k[1].fn = single
            /\ (n >= 2 /\ array \in glProcs) =>
                   /\ Len(k) = 1
                   /\ k[1].fn = array
                   /\ k[1].index = 0
                   /\ Len(k[1].arg) = n
            /\ (n = 0 \/ (n >= 2 /\ array \notin glProcs)) => k = <<>>
            /\ UNCHANGED <<currentContextHeight, emulateClipControl, glProcs, glEnabled>>

C19_SingleArrayOrSkipped ==
    [][/\ C19_Step("SetViewports", "glViewport", "glViewportArrayv")
       /\ C19_Step("SetDepthRanges", "glDepthRange", "glDepthRangeArrayv")
       /\ C19_Step("SetScissors", "glScissor", "glScissorArrayv")]_vars

\* two scissors were submitted while the driver offers the array entry point for
\* viewports but not the one for scissors: the call was skipped without an error
C19_Witness ==
    /\ run.op = "SetScissors"
    /\ Len(LastOf(run.args)) = 2
    /\ "glViewportArrayv" \in glProcs
    /\ "glScissorArrayv" \notin glProcs
    /\ LastOf(run.calls) = <<>>
    /\ status = "ok"

(***************************************************************************)
(* C20.  When clip-control emulation is on, every viewport and every       *)
(* scissor submitted to the driver has its vertical origin replaced by     *)
(* contextHeight - height - y, contextHeight being the height supplied by  *)
(* the most recent MakeCurrentInfo call before that SetViewports /         *)
(* SetScissors call (MakeCurrentInfo stores the height it is given and no  *)
(* other method changes the stored height); when emulation is off the y    *)
(* value is submitted unchanged.  The single-viewport native call takes    *)
(* integers: it receives the (replaced or unchanged) values converted to   *)
(* integer.                                                                *)
(***************************************************************************)
C20_HeightIsLastSupplied ==
    /\ run'.op = "MakeCurrentInfo" => currentContextHeight' = LastOf(run'.args)
    /\ run'.op # "MakeCurrentInfo" => UNCHANGED currentContextHeight

C20_ViewportY(v) ==
    IF emulateClipControl THEN GLfloatCast(currentContextHeight) - v.height - v.y ELSE v.y

C20_ScissorY(sc) ==
    IF emulateClipControl THEN currentContextHeight - sc.height - sc.y ELSE sc.y

C20_Viewports ==
    (run'.op = "SetViewports" /\ LastOf(run'.calls) # <<>>) =>
        LET vs == LastOf(run'.args)
            c == LastOf(run'.calls)[1]
        IN  IF c.fn = "glViewport"
            THEN c.arg = <<GLintCast(vs[1].x), GLintCast(C20_ViewportY(vs[1])),
                           GLintCast(vs[1].width), GLintCast(vs[1].height)>>
            ELSE c.arg = [i \in 1..Len(vs) |-> [vs[i] EXCEPT !.y = C20_ViewportY(vs[i])]]

C20_Scissors ==
    (run'.op = "SetScissors" /\ LastOf(run'.calls) # <<>>) =>
        LET scs == LastOf(run'.args)
            c == LastOf(run'.calls)[1]
        IN  IF c.fn = "glScissor"
            THEN c.arg = <<scs[1].x, C20_ScissorY(scs[1]), scs[1].width, scs[1].height>>
            ELSE c.arg = [i \in 1..Len(scs) |-> [scs[i] EXCEPT !.y = C20_ScissorY(scs[i])]]

MaskArg(state) ==
    <<state.colorMask.r, state.colorMask.g, state.colorMask.b, state.colorMask.a>>

FuncArg(state) == <<state.srcColor, state.destColor, state.srcAlpha, state.destAlpha>>

C21_Single(state, enabled, mirror) ==
    (IF state.colorMask # mirror
     THEN <<GLCall("glColorMask", "-", 0, MaskArg(state))>> ELSE <<>>)
    \o (IF enabled
        THEN <<GLCall("glBlendFuncSeparate", "-", 0, FuncArg(state))>> ELSE <<>>)

C21_Indexed(list, enabled) ==
    Flatten([i \in 1..Len(list) |->
        <<GLCall("glColorMaski", ColorAttachment(i - 1), 0, MaskArg(list[i]))>>
        \o (IF enabled
            THEN <<GLCall("glBlendFuncSeparatei", ColorAttachment(i - 1), 0,
                          FuncArg(list[i]))>>
            ELSE <<>>)])

C21_Fallback(list, enabled) ==
    Flatten([i \in 1..Len(list) |->
        <<GLCall("glDrawBuffer", ColorAttachment(i - 1), 0, 0),
          GLCall("glColorMask", "-", 0, MaskArg(list[i]))>>
        \o (IF enabled
            THEN <<GLCall("glBlendFuncSeparate", "-", 0, FuncArg(list[i]))>>
            ELSE <<>>)])

IndexedBlendAvailable == {"glBlendFuncSeparatei", "glColorMaski"} \subseteq glProcs

C21_Step ==
    run'.op = "SetBlendStates" =>
        LET list == LastOf(run'.args).states
            enabled == LastOf(run'.args).enabled
            k == LastOf(run'.calls)
        IN  /\ status' = "ok"
            /\ Len(list) = 1 =>
                   /\ k = C21_Single(list[1], enabled, colorMask)
                   /\ colorMask' = list[1].colorMask
            /\ (Len(list) >= 2 /\ IndexedBlendAvailable) =>
                   k = C21_Indexed(list, enabled)
            /\ (Len(list) >= 2 /\ ~IndexedBlendAvailable) =>
                   k = C21_Fallback(list, enabled)

C22_Step ==
    run'.op = "SetBlendStates" =>
        LET n == Len(LastOf(run'.args).states)
            k == LastOf(run'.calls)
        IN  /\ (n >= 2 /\ ~IndexedBlendAvailable) =>
                   glDrawBuf' = ColorAttachment(n - 1)
            /\ (n = 1 \/ (n >= 2 /\ IndexedBlendAvailable)) =>
                   /\ glDrawBuf' = glDrawBuf
                   /\ \A i \in 1..Len(k) : k[i].fn # "glDrawBuffer"

C22_DrawBufferNotRestored == [][C22_Step]_vars

\* the back buffer was selected when three states were applied on the fallback
\* path: the third color attachment is left selected
C22_Witness ==
    /\ run.op = "SetBlendStates"
    /\ Len(LastOf(run.args).states) = 3
    /\ ~IndexedBlendAvailable
    /\ LastOf(run.pre).drawBuffer = [base |-> "GL_BACK", offset |-> 0]
    /\ glDrawBuf = ColorAttachment(2)

(***************************************************************************)
(* C23.  DXThrowIfFailed raises std::runtime_error exactly when the status *)
(* code is a failure code (severity bit set: a negative HRESULT).  The     *)
(* message is the caller's info text followed by " (error code = ",        *)
(* the name of the code when the switch of DXErrorToStr lists it and its   *)
(* hexadecimal value otherwise, and ")".  With a success code nothing is   *)
(* raised and nothing else happens: the caller goes on (the sampler object *)
(* is constructed), while a raised failure leaves no object behind.        *)
(***************************************************************************)
C23_Listed(c) ==
    {e \in {DXErrorTable[i] : i \in 1..Len(DXErrorTable)}
            \cup (IF c.d3d12 THEN {D3D12ErrorTable[i] : i \in 1..Len(D3D12ErrorTable)}
                  ELSE {}) : e.code = c.errorCode}

C23_Step ==
    dxCall'.caller # "none" =>
        LET c == dxCall'
        IN  /\ c.thrown <=> c.errorCode < 0
            /\ c.thrown =>
                   /\ \E decoded \in {e.name : e \in C23_Listed(c)}
                                     \cup {ToHex(c.errorCode)} :
                          /\ C23_Listed(c) = {} <=> decoded = ToHex(c.errorCode)
                          /\ c.what = c.info \o " (error code = " \o decoded \o ")"
                   /\ samplers' = samplers
            /\ ~c.thrown =>
                   /\ c.what = ""
                   /\ c.caller = "D3D11Sampler" => samplers' = samplers + 1
            /\ UNCHANGED <<glVars, dbgVars>>

C23_FailuresAreRaised == [][C23_Step]_vars

\* after one sampler was created, CreateSamplerState returned the failure code
\* 0x80040154, which the switch does not list: the constructor threw, with the
\* hexadecimal value in the message, and no second sampler exists
C23_Witness ==
    /\ dxCall.caller = "D3D11Sampler"
    /\ dxCall.errorCode = -2147221164
    /\ dxCall.thrown
    /\ dxCall.what = "failed to create D3D11 sampler state (error code = 80040154)"
    /\ samplers = 1

(***************************************************************************)
(* C24.  The DbgCommandBuffer forwards every call to the wrapped command   *)
(* buffer exactly once, with the same arguments and in the order the calls *)
(* were made, whether or not the validation reported a violation: the      *)
(* calls made on `instance` during a call are that call alone, so the      *)
(* sequence forwarded since construction is the sequence of calls made.    *)
(* A violation shows only as a report; the call still returns.             *)
(***************************************************************************)
C24_EveryCallForwardedOnce ==
    \A i \in 1..Len(dbgLog) :
        dbgLog[i].forwarded = <<[fn |-> dbgLog[i].fn, args |-> dbgLog[i].args]>>

\* a draw without pipeline and vertex buffer, a pipeline, a texture bound to a
\* stage its program lacks and a correct call: four calls, two of them with
\* reports, all forwarded in their order
C24_Witness ==
    /\ Len(dbgLog) = 4
    /\ dbgLog[1].fn = "Draw" /\ Len(dbgLog[1].reports) >= 2
    /\ dbgLog[2].fn = "SetGraphicsPipeline"
    /\ dbgLog[3].fn = "SetTexture" /\ dbgLog[3].reports # <<>>
    /\ dbgLog[4].fn = "SetViewport" /\ dbgLog[4].reports = <<>>
    /\ [i \in 1..4 |-> dbgLog[i].forwarded[1].fn]
           = <<"Draw", "SetGraphicsPipeline", "SetTexture", "SetViewport">>

(***************************************************************************)
(* C25.  Every DrawIndexed and DrawIndexedInstanced overload called while  *)
(* no index buffer is bound (none set by SetIndexBuffer since the last     *)
(* construction or pipeline change) posts exactly one report about the     *)
(* missing index buffer and still forwards the call; with an index buffer  *)
(* bound it posts no such report.                                          *)
(***************************************************************************)
\* the number of reports about one subject
CountAbout(reports, about) ==
    Cardinality({i \in 1..Len(reports) : reports[i].about = about})

\* the call the step made, as the log holds it
LastCall == dbgLog[Len(dbgLog)]

C25_Step ==
    (dbgLog' # <<>> /\ LastCall'.fn \in {"DrawIndexed", "DrawIndexedInstanced"}) =>
        /\ CountAbout(LastCall'.reports, "no index buffer is bound")
               = (IF bindings_.indexBuffer = 0 THEN 1 ELSE 0)
        /\ LastCall'.forwarded = <<[fn |-> LastCall'.fn, args |-> LastCall'.args]>>

C25_MissingIndexBufferReportedOnce == [][C25_Step]_vars

\* the overload of DrawIndexedInstanced with five arguments was called with a
\* pipeline and a vertex buffer but no index buffer: the one report is about
\* the index buffer, and the call reached the wrapped command buffer
C25_Witness ==
    /\ dbgLog # <<>>
    /\ LastCall.fn = "DrawIndexedInstanced"
    /\ Len(LastCall.args) = 5
    /\ bindings_.graphicsPipeline # 0
    /\ bindings_.vertexBuffer # 0
    /\ bindings_.indexBuffer = 0
    /\ Len(LastCall.reports) = 1
    /\ LastCall.reports[1].about = "no index buffer is bound"
    /\ LastCall.forwarded = <<[fn |-> "DrawIndexedInstanced", args |-> LastCall.args]>>

(***************************************************************************)
(* C26.  With the triangle-list topology recorded, a draw call of n        *)
(* vertices posts, when n is not a multiple of 3, exactly one report about *)
(* the vertex count, and it cites n mod 3 unused vertices (1 for n = 10);  *)
(* when n is a multiple of 3 (n = 9) it posts no report about the vertex   *)
(* count.                                                                  *)
(***************************************************************************)
DrawNames == {"Draw", "DrawIndexed", "DrawInstanced", "DrawIndexedInstanced"}

\* the reports about the vertex count among the reports of a call
C26_Remainders(reports) ==
    SelectSeq(reports, LAMBDA r : r.about = "improper number of vertices for triangle list")

C26_Step ==
    (dbgLog' # <<>> /\ LastCall'.fn \in DrawNames /\ topology_ = "TriangleList") =>
        LET n == LastCall'.args[1]
            found == C26_Remainders(LastCall'.reports)
        IN  /\ n % 3 # 0 => Len(found) = 1 /\ found[1].value = n % 3
            /\ n % 3 = 0 => found = <<>>
            /\ n = 10 => found[1].value = 1
            /\ n = 9 => found = <<>>
            /\ \A i \in 1..Len(LastCall'.reports) :
                   LastCall'.reports[i].about # "improper number of vertices for line list"

C26_TopologyRemainder == [][C26_Step]_vars

\* 10 vertices were drawn with a triangle-list pipeline and a matching vertex
\* buffer: the only report cites 1 unused vertex
C26_Witness ==
    /\ dbgLog # <<>>
    /\ LastCall.fn = "Draw"
    /\ LastCall.args[1] = 10
    /\ bindings_.graphicsPipeline = 1
    /\ topology_ = "TriangleList"
    /\ Len(LastCall.reports) = 1
    /\ LastCall.reports[1].about = "improper number of vertices for triangle list"
    /\ LastCall.reports[1].value = 1

(***************************************************************************)
(* C27.  A draw call made while no graphics pipeline has been bound since  *)
(* construction, and a Dispatch made while no compute pipeline has been    *)
(* bound, posts one report about the missing pipeline and is forwarded all *)
(* the same.  No pipeline is bound after construction; SetGraphicsPipeline *)
(* binds one and it stays bound, so that from then on no draw call posts   *)
(* the report about the missing graphics pipeline.                         *)
(***************************************************************************)
C27_DrawStep ==
    (dbgLog' # <<>> /\ LastCall'.fn \in DrawNames) =>
        /\ CountAbout(LastCall'.reports, "no graphics pipeline is bound")
               = (IF bindings_.graphicsPipeline = 0 THEN 1 ELSE 0)
        /\ LastCall'.forwarded = <<[fn |-> LastCall'.fn, args |-> LastCall'.args]>>

C27_DispatchStep ==
    (dbgLog' # <<>> /\ LastCall'.fn = "Dispatch") =>
        /\ CountAbout(LastCall'.reports, "no compute pipeline is bound")
               = (IF bindings_.computePipeline = 0 THEN 1 ELSE 0)
        /\ LastCall'.forwarded = <<[fn |-> "Dispatch", args |-> LastCall'.args]>>

\* NoPipeline is left by SetGraphicsPipeline only, and entered by construction only
C27_PipelineStep ==
    /\ dbgLog' = <<>> => bindings_'.graphicsPipeline = 0 /\ bindings_'.computePipeline = 0
    /\ (dbgLog' # <<>> /\ LastCall'.fn = "SetGraphicsPipeline") =>
           bindings_'.graphicsPipeline # 0
    /\ (dbgLog' # <<>> /\ LastCall'.fn # "SetGraphicsPipeline") =>
           bindings_'.graphicsPipeline = bindings_.graphicsPipeline
    /\ (dbgLog' # <<>> /\ LastCall'.fn # "SetComputePipeline") =>
           bindings_'.computePipeline = bindings_.computePipeline

C27_MissingPipelineReported == [][C27_DrawStep /\ C27_DispatchStep /\ C27_PipelineStep]_vars

\* with a compute pipeline but no graphics pipeline bound, an instanced draw
\* was reported for the missing graphics pipeline and forwarded
C27_Witness ==
    /\ dbgLog # <<>>
    /\ LastCall.fn = "DrawInstanced"
    /\ bindings_.graphicsPipeline = 0
    /\ bindings_.computePipeline # 0
    /\ CountAbout(LastCall.reports, "no graphics pipeline is bound") = 1
    /\ LastCall.forwarded = <<[fn |-> "DrawInstanced", args |-> LastCall.args]>>

(***************************************************************************)
(* C28.  Stream output is inactive after construction, active after        *)
(* BeginStreamOutput and inactive again after EndStreamOutput, and no      *)
(* other call changes it.  Every draw call made while it is active posts   *)
(* one report about the misuse and is still forwarded; a draw call made    *)
(* while it is inactive (before BeginStreamOutput or after                 *)
(* EndStreamOutput) posts no such report.                                  *)
(***************************************************************************)
C28_StateStep ==
    /\ dbgLog' = <<>> => ~states_'.streamOutputBusy
    /\ (dbgLog' # <<>> /\ LastCall'.fn = "BeginStreamOutput") => states_'.streamOutputBusy
    /\ (dbgLog' # <<>> /\ LastCall'.fn = "EndStreamOutput") => ~states_'.streamOutputBusy
    /\ (dbgLog' # <<>> /\ LastCall'.fn \notin {"BeginStreamOutput", "EndStreamOutput"}) =>
           states_' = states_

C28_DrawStep ==
    (dbgLog' # <<>> /\ LastCall'.fn \in DrawNames) =>
        /\ CountAbout(LastCall'.reports, "drawing while stream-output is active")
               = (IF states_.streamOutputBusy THEN 1 ELSE 0)
        /\ LastCall'.forwarded = <<[fn |-> LastCall'.fn, args |-> LastCall'.args]>>

C28_StreamOutputStateMachine ==
    [][(dbgLog = <<>> => ~states_.streamOutputBusy) /\ C28_StateStep /\ C28_DrawStep]_vars

\* an indexed draw, correct in everything else, was made between
\* BeginStreamOutput and EndStreamOutput: its one report is about the misuse
C28_Witness ==
    /\ dbgLog # <<>>
    /\ LastCall.fn = "DrawIndexed"
    /\ states_.streamOutputBusy
    /\ Len(LastCall.reports) = 1
    /\ LastCall.reports[1].about = "drawing while stream-output is active"
    /\ LastCall.forwarded = <<[fn |-> "DrawIndexed", args |-> LastCall.args]>>

(***************************************************************************)
(* C29.  SetGraphicsPipeline, called with no pipeline or with a pipeline   *)
(* bound, leaves the given pipeline bound, records the topology and the    *)
(* vertex format of that pipeline in place of the previous ones, and puts  *)
(* the assumptions a draw call relies on, the bound vertex buffer and      *)
(* index buffer, back to their defaults (none bound); it leaves the        *)
(* compute pipeline and the stream-output state alone.                     *)
(* SetComputePipeline changes the recorded compute pipeline and nothing    *)
(* else: graphics pipeline, topology, vertex format, vertex and index      *)
(* buffer stay as they were.                                               *)
(***************************************************************************)
C29_GraphicsStep ==
    (dbgLog' # <<>> /\ LastCall'.fn = "SetGraphicsPipeline") =>
        LET graphicsPipeline == LastCall'.args[1]
        IN  /\ bindings_'.graphicsPipeline = graphicsPipeline
            /\ graphicsPipeline # 0
            /\ topology_' = GraphicsPipelineDesc(graphicsPipeline).primitiveTopology
            /\ vertexFormat_' = GraphicsPipelineDesc(graphicsPipeline).vertexFormat
            /\ bindings_'.vertexBuffer = InitialBindings.vertexBuffer
            /\ bindings_'.indexBuffer = InitialBindings.indexBuffer
            /\ bindings_'.computePipeline = bindings_.computePipeline
            /\ bindings_'.streamOutput = bindings_.streamOutput
            /\ UNCHANGED <<states_, caps_>>

C29_ComputeStep ==
    (dbgLog' # <<>> /\ LastCall'.fn = "SetComputePipeline") =>
        /\ bindings_' = [bindings_ EXCEPT !.computePipeline = LastCall'.args[1]]
        /\ UNCHANGED <<topology_, vertexFormat_, states_, caps_>>

C29_PipelineBinding == [][C29_GraphicsStep /\ C29_ComputeStep]_vars

\* the line-list pipeline was bound after a compute pipeline and during stream
\* output: topology and vertex format are those of the pipeline, no vertex or
\* index buffer is bound, compute pipeline and stream output are untouched
C29_Witness ==
    /\ dbgLog # <<>>
    /\ LastCall.fn = "SetGraphicsPipeline"
    /\ LastCall.args = <<3>>
    /\ bindings_ = [vertexBuffer |-> 0, indexBuffer |-> 0, streamOutput |-> 0,
                    graphicsPipeline |-> 3, computePipeline |-> 1]
    /\ topology_ = "LineList"
    /\ vertexFormat_ = "position3"
    /\ states_.streamOutputBusy

(***************************************************************************)
(* C30.  Every overload of Draw, DrawIndexed, DrawInstanced and            *)
(* DrawIndexedInstanced called while no vertex buffer or vertex buffer     *)
(* array is bound posts exactly one report about the missing vertex        *)
(* buffer for that call, and none when one is bound.  When the calls made  *)
(* since construction are those of the render loop of the test, in its     *)
(* order (SetGraphicsPipeline, SetVertexBuffer, SetTexture, Draw of four   *)
(* vertices of a triangle strip), none of the four has a report and each   *)
(* was forwarded once.                                                     *)
(***************************************************************************)
C30_DrawStep ==
    (dbgLog' # <<>> /\ LastCall'.fn \in DrawNames) =>
        CountAbout(LastCall'.reports, "no vertex buffer is bound")
            = (IF bindings_.vertexBuffer = 0 THEN 1 ELSE 0)

\* the calls of the render loop, Test2_OpenGL.cpp lines 358, 359, 404 and 405
C30_RenderLoop ==
    <<[fn |-> "SetGraphicsPipeline", args |-> <<2>>],
      [fn |-> "SetVertexBuffer", args |-> <<1>>],
      [fn |-> "SetTexture", args |-> <<1, 0, AllStages>>],
      [fn |-> "Draw", args |-> <<4, 0>>]>>

C30_IsRenderLoop ==
    /\ Len(dbgLog) = Len(C30_RenderLoop)
    /\ \A i \in 1..Len(dbgLog) :
           /\ dbgLog[i].fn = C30_RenderLoop[i].fn
           /\ dbgLog[i].args = C30_RenderLoop[i].args

C30_LoopIsClean ==
    C30_IsRenderLoop =>
        \A i \in 1..Len(dbgLog) :
            /\ dbgLog[i].reports = <<>>
            /\ dbgLog[i].forwarded = <<C30_RenderLoop[i]>>

C30_WitnessMissing ==
    /\ Len(dbgLog) = 3
    /\ dbgLog[1].fn = "DrawIndexedInstanced"
    /\ CountAbout(dbgLog[1].reports, "no vertex buffer is bound") = 1
    /\ dbgLog[2].fn = "SetVertexBufferArray"
    /\ dbgLog[3].fn = "DrawIndexedInstanced"
    /\ CountAbout(dbgLog[3].reports, "no vertex buffer is bound") = 0

(***************************************************************************)
(* C31.  The static pointer GLStateManager::active designates the cache    *)
(* constructed last, after any number of constructions, and a step that    *)
(* constructs no cache (Set, the binds, the pushes and pops, Reset,        *)
(* MakeCurrentInfo on the first cache) leaves the pointer as it is.        *)
(***************************************************************************)
C31_Step ==
    /\ active = constructed
    /\ active' = constructed'
    /\ constructed' = constructed => active' = active

C31_ActiveIsLastConstructed == [][C31_Step]_vars

\* a second cache was constructed and the client went on using the first one:
\* the pointer designates the second
C31_Witness ==
    /\ constructed = 2
    /\ active = 2
    /\ values["BLEND"]
    /\ valueStack # <<>>
    /\ boundBuffers["ARRAY_BUFFER"] = 1
    /\ boundBufferStack # <<>>
    /\ layers[1]["TEXTURE_2D"] = 1
    /\ boundProgram = 1
    /\ currentContextHeight = 1

(***************************************************************************)
(* C32.  After any sequence of SetBlendStates calls (a single state, a     *)
(* list on the indexed path, a list on the fallback path) the mirrored     *)
(* color mask is the global color mask the driver was last sent.           *)
(***************************************************************************)
\* the mirrored mask in the order of the arguments of glColorMask
MaskOf(m) == <<m.r, m.g, m.b, m.a>>

C32_ColorMaskMirrorCoherent == MaskOf(colorMask) = native.colorMask

(***************************************************************************)
(* C33.  In every state reached by BindBuffer, ForcedBindBuffer,           *)
(* BindBufferBase, PushBoundBuffer and PopBoundBuffer the mirrored handle  *)
(* of each buffer target is the handle of the last native bind issued for  *)
(* that target (0 if there was none), and each of these calls changes the  *)
(* mirrored slot of no target but the one it names (for PopBoundBuffer the *)
(* target of the entry it pops).                                           *)
(***************************************************************************)
C33_Coherent ==
    \A target \in GLBufferTarget :
        boundBuffers[target] = Bound(native.buffers, bufferTargetsMap(target))

C33_Step ==
    LET changed == {target \in GLBufferTarget : boundBuffers'[target] # boundBuffers[target]}
    IN  /\ C33_Coherent
        /\ C33_Coherent'
        /\ Cardinality(changed) <= 1
        /\ run'.op \in {"BindBuffer", "ForcedBindBuffer", "BindBufferBase"}
               => changed \subseteq {run'.slot}
        /\ run'.op = "PushBoundBuffer" => changed = {}
        /\ run'.op = "PopBoundBuffer" => changed \subseteq {Top(boundBufferStack).target}

C33_BufferMirrorCoherent == [][C33_Step]_vars

\* PopBoundBuffer put back the saved uniform buffer with a native bind while
\* another target holds a buffer and another save is open
C33_Witness ==
    /\ run.op = "PopBoundBuffer"
    /\ run.calls[1] # <<>>
    /\ boundBuffers["UNIFORM_BUFFER"] = 1
    /\ boundBuffers["ARRAY_BUFFER"] = 1
    /\ boundBufferStack # <<>>
    /\ C33_Coherent

(***************************************************************************)
(* C34.  In every reachable state the table BindTexture addresses is the   *)
(* table of the mirrored active layer, the mirrored active layer is the    *)
(* layer of the last native active-texture call (layer 0 if there was      *)
(* none), and for every layer and target the mirrored handle is the handle *)
(* of the last native texture bind issued for that target while that layer *)
(* was the active unit of the driver (0 if there was none).                *)
(***************************************************************************)
C34_TextureMirrorCoherent ==
    /\ activeTextureLayer = activeTexture
    /\ textureLayersMap(activeTexture) = native.unit
    /\ \A layer \in 0..(numTextureLayers - 1), target \in GLTextureTarget :
           layers[layer][target]
               = Bound(native.textures, <<textureLayersMap(layer), textureTargetsMap(target)>>)

\* PopBoundTexture went back to layer 0 and restored its texture while layer 1
\* holds textures of both targets
C34_Witness ==
    /\ C34_TextureMirrorCoherent
    /\ activeTexture = 0
    /\ layers[0]["TEXTURE_2D"] = 1
    /\ layers[1]["TEXTURE_2D"] = 1
    /\ layers[1]["TEXTURE_3D"] = 1
    /\ layers[0]["TEXTURE_3D"] = 0
    /\ Len(boundTextureStack) = 1
    /\ DOMAIN native.textures
           = {<<0, "GL_TEXTURE_2D">>, <<1, "GL_TEXTURE_2D">>, <<1, "GL_TEXTURE_3D">>}

(***************************************************************************)
(* C35.  Reset leaves in the mirror of every capability what the driver    *)
(* reports for it, issues no native call that changes state, and leaves    *)
(* the save stack of the capabilities, the buffer and texture bindings,    *)
(* the active layer, the shader program, the other stacks and the driver   *)
(* as they are.  A PopState after it therefore still applies the value     *)
(* that was saved by the push: the mirror takes the saved value, and the   *)
(* native call is issued exactly when the mirror, as Reset or whatever     *)
(* came last left it, differs from the saved value.                        *)
(***************************************************************************)
C35_LastOp == LastOf(run'.args).op

C35_ResetStep ==
    (run'.args # <<>> /\ C35_LastOp = "Reset") =>
        /\ values' = [i \in GLState |-> glEnabled[stateCapsMap(i)]]
        /\ LastOf(run'.calls) = <<>>
        /\ UNCHANGED <<valueStack, capShadow, boundBuffers, boundBufferStack, layers,
                       activeTexture, activeTextureLayer, boundTextureStack,
                       boundProgram, boundProgramStack, stencil, colorMask,
                       commonState, currentContextHeight, emulateClipControl,
                       glEnabled, glProcs, glDrawBuf, native, status>>

C35_PopStep ==
    (run'.args # <<>> /\ C35_LastOp = "PopState" /\ valueStack # <<>>) =>
        LET e == Top(valueStack)
        IN  /\ e = Top(capShadow)
            /\ values'[e.state] = e.enabled
            /\ LastOf(run'.calls)
                   = (IF values[e.state] # e.enabled
                      THEN <<CapCall(e.state, e.enabled)>> ELSE <<>>)
            /\ valueStack' = Pop(valueStack)

C35_ResetKeepsSavedValues == [][C35_ResetStep /\ C35_PopStep]_vars

\* on a driver with blending on: BLEND was saved as off, a buffer was bound,
\* Reset turned the mirror on, and PopState turned blending off again
C35_Witness ==
    /\ Len(run.args) = 4
    /\ [i \in 1..4 |-> run.args[i].op] = <<"PushState", "BindBuffer", "Reset", "PopState">>
    /\ run.args[1].slot = "BLEND"
    /\ run.pre[1] = FALSE
    /\ run.calls[3] = <<>>
    /\ run.calls[4] = <<CapCall("BLEND", FALSE)>>
    /\ ~values["BLEND"]
    /\ boundBuffers["ARRAY_BUFFER"] = 1
    /\ valueStack = <<>>

(***************************************************************************)
(* C36.  With clip-control emulation on and the context height unchanged,  *)
(* a SetScissors (or SetViewports) call that is passed the vector the      *)
(* previous call of the same method left behind submits the y values the   *)
(* vector had before that previous call, the previous call having          *)
(* submitted contextHeight - height - y (for a single viewport both are    *)
(* submitted converted to integer); and a call that issues no native call  *)
(* leaves the vector as it was passed.  C36_Involution states it for       *)
(* every viewport and scissor; C36_InvolutionWhenExact states it for every *)
(* scissor, and for the viewports whose two GLfloat subtractions are       *)
(* exact.                                                                  *)
(***************************************************************************)
\* the step is a second call with the vector the call before it left behind
C36_Again(op) ==
    /\ run.op = op
    /\ run'.op = op
    /\ Len(run'.args) = Len(run.args) + 1
    /\ LastOf(run'.args) = LastOf(run.vector)
    /\ emulateClipControl

C36_Flipped(height, e) == height - e.height - e.y

\* neither subtraction of AdjustViewport rounds
C36_Exact(v) ==
    LET d == GLfloatCast(currentContextHeight) - v.height
    IN  GLfloatRound(d) = d /\ GLfloatRound(d - v.y) = d - v.y

C36_ScissorsStep ==
    C36_Again("SetScissors") =>
        LET original == LastOf(run.args)
            first == LastOf(run.calls)
            second == LastOf(run'.calls)
        IN  /\ first = <<>> <=> second = <<>>
            /\ first # <<>> =>
                   IF first[1].fn = "glScissor"
                   THEN /\ first[1].arg[2] = C36_Flipped(currentContextHeight, original[1])
                        /\ second[1].arg[2] = original[1].y
                   ELSE \A i \in 1..Len(original) :
                            /\ first[1].arg[i].y
                                   = C36_Flipped(currentContextHeight, original[i])
                            /\ second[1].arg[i].y = original[i].y

C36_ViewportsStep(exactOnly) ==
    C36_Again("SetViewports") =>
        LET original == LastOf(run.args)
            first == LastOf(run.calls)
            second == LastOf(run'.calls)
            height == GLfloatCast(currentContextHeight)
        IN  /\ first = <<>> <=> second = <<>>
            /\ (/\ first # <<>>
                /\ exactOnly => \A i \in 1..Len(original) : C36_Exact(original[i])) =>
                   IF first[1].fn = "glViewport"
                   THEN /\ first[1].arg[2] = GLintCast(C36_Flipped(height, original[1]))
                        /\ second[1].arg[2] = GLintCast(original[1].y)
                   ELSE \A i \in 1..Len(original) :
                            /\ first[1].arg[i].y = C36_Flipped(height, original[i])
                            /\ second[1].arg[i].y = original[i].y

\* a call that issued no native call left the vector as it was passed
C36_SkippedStep ==
    (run'.op \in {"SetViewports", "SetScissors"} /\ LastOf(run'.calls) = <<>>) =>
        LastOf(run'.vector) = LastOf(run'.args)

C36_WitnessViewports ==
    /\ run.op = "SetViewports"
    /\ emulateClipControl
    /\ currentContextHeight = TallHeight
    /\ Len(run.args) = 2
    /\ Len(run.args[1]) = 2
    /\ \A i \in 1..2 : C36_Exact(run.args[1][i])
    /\ run.args[1][2].y # 0
    /\ run.args[2] = run.vector[1]
    /\ run.args[2] # run.args[1]
    /\ run.calls[2] # <<>>
    /\ run.calls[2][1].arg = run.args[1]

(***************************************************************************)
(* C37.  SetDepthFunc, SetPolygonMode, SetCullFace, SetFrontFace and       *)
(* SetDepthMask each issue their native call (glDepthFunc, glPolygonMode   *)
(* for GL_FRONT_AND_BACK, glCullFace, glFrontFace, glDepthMask, with the   *)
(* requested value) exactly when the requested value differs from the      *)
(* mirrored one, leave the requested value in their own mirrored field and *)
(* change no other member; a run of consecutive calls of one setter with   *)
(* the same value issues at most one native call.                          *)
(***************************************************************************)
C37_Setter(op, field, fn, target) ==
    run'.op = op =>
        LET value == LastOf(run'.args)
            pre == LastOf(run'.pre)
        IN  /\ pre = commonState
            /\ LastOf(run'.calls)
                   = (IF pre[field] # value THEN <<GLCall(fn, target, 0, value)>> ELSE <<>>)
            /\ commonState' = [pre EXCEPT ![field] = value]
            /\ UNCHANGED <<values, valueStack, boundBuffers, boundBufferStack, layers,
                           activeTexture, activeTextureLayer, boundTextureStack,
                           boundProgram, boundProgramStack, stencil, colorMask,
                           currentContextHeight, emulateClipControl, status>>

C37_SameValueRun ==
    (run'.args # <<>> /\ \A i \in 1..Len(run'.args) : run'.args[i] = run'.args[1]) =>
        Len(Flatten(run'.calls)) <= 1

C37_ScalarSettersFiltered ==
    [][/\ C37_Setter("SetDepthFunc", "depthFunc", "glDepthFunc", "-")
       /\ C37_Setter("SetPolygonMode", "polygonMode", "glPolygonMode", "GL_FRONT_AND_BACK")
       /\ C37_Setter("SetCullFace", "cullFace", "glCullFace", "-")
       /\ C37_Setter("SetFrontFace", "frontFace", "glFrontFace", "-")
       /\ C37_Setter("SetDepthMask", "depthMask", "glDepthMask", "-")
       /\ C37_SameValueRun]_vars

\* the depth function was set to GL_LEQUAL twice in a row: the first call went to
\* the driver, the second did not; the other fields are what they were
C37_Witness ==
    /\ run.op = "SetDepthFunc"
    /\ run.args = <<"GL_LEQUAL", "GL_LEQUAL">>
    /\ run.pre[1].depthFunc = "GL_LESS"
    /\ run.calls = << <<GLCall("glDepthFunc", "-", 0, "GL_LEQUAL")>>, <<>> >>
    /\ commonState = [run.pre[1] EXCEPT !.depthFunc = "GL_LEQUAL"]
    /\ commonState.cullFace = "GL_FRONT"

(***************************************************************************)
(* C38.  BindTexture(texture) and ForcedBindTexture(texture) with a        *)
(* texture whose type is none of 1D, 2D, 3D, Cube, 1DArray, 2DArray and    *)
(* CubeArray end with an invalid-argument error and nothing done: no       *)
(* native call is issued, and the active layer, every binding slot of      *)
(* every layer, every buffer binding, the program and every stack are as   *)
(* they were.  With one of the seven types no error is raised.             *)
(***************************************************************************)
C38_Mapped ==
    {"Texture1D", "Texture2D", "Texture3D", "TextureCube",
     "Texture1DArray", "Texture2DArray", "TextureCubeArray"}

C38_Step ==
    run'.op \in {"BindTexture(texture)", "ForcedBindTexture(texture)"} =>
        IF LastOf(run'.args).type \in C38_Mapped
        THEN LastOf(run'.thrown) = ""
        ELSE /\ LastOf(run'.thrown) = InvalidArgument
             /\ LastOf(run'.calls) = <<>>
             /\ UNCHANGED <<values, valueStack, boundBuffers, boundBufferStack, layers,
                            activeTexture, activeTextureLayer, boundTextureStack,
                            boundProgram, boundProgramStack, stencil, colorMask,
                            commonState, currentContextHeight, emulateClipControl,
                            glProcs, glEnabled, glDrawBuf, native, status>>

C38_UnmappedTypeRejected == [][C38_Step]_vars

\* with texture 1 bound to TEXTURE_2D on layer 1 and a binding saved, the forced
\* bind of a multi-sampled texture was rejected and left everything in place
C38_Witness ==
    /\ run.op = "ForcedBindTexture(texture)"
    /\ LastOf(run.args) = [type |-> "Texture2DMS", id |-> 1]
    /\ LastOf(run.thrown) = InvalidArgument
    /\ LastOf(run.calls) = <<>>
    /\ activeTexture = 1
    /\ layers[1]["TEXTURE_2D"] = 1
    /\ layers[0]["TEXTURE_2D"] = 0
    /\ boundTextureStack # <<>>
    /\ native.textures = (<<1, "GL_TEXTURE_2D">> :> 1)

====
